---- MODULE Spec2Model ----
(***************************************************************************)
(* p5.hands (src/p5.hands.js): the hand-state layer over ml5 HandPose.     *)
(*                                                                         *)
(* State: the module-level variables of the library (_hands,               *)
(* _smoothedHands, _prevHands, _ready, _running, _model, _smoothing) and   *)
(* the part of the ml5 collaborator the library drives (model instances,   *)
(* whether each has loaded and is detecting).                              *)
(* frame counts the detection callbacks run so far, delivered and          *)
(* deliveredBefore are the arguments of the last callback and of the one   *)
(* before it, and err records whether the last callback threw.  stopped    *)
(* tells that stopHands() was called and neither startHands() nor          *)
(* initHands() since; asked and answer are the query the sketch made last  *)
(* since the last callback or lifecycle call, and what it returned.        *)
(*                                                                         *)
(* Numbers.  A coordinate, a velocity component, a distance and _smoothing *)
(* are JS numbers, IEEE-754 doubles, and the code's arithmetic on them is  *)
(* computed as the doubles' arithmetic (section JS NUMBERS).  A distance   *)
(* and a speed are kept as the number whose Math.sqrt they are (sq,        *)
(* speedSq).  A count (handCount, countFingers) and a threshold a caller   *)
(* passes in whole pixels are integers.                                    *)
(*                                                                         *)
(* Objects.  Every hand object carries a ref, its identity: two hands are  *)
(* the same object iff their refs are equal, and a JSON copy has a fresh   *)
(* ref.  A TypeError thrown by the code is the value TypeError (for a      *)
(* query) or err = "TypeError" (for the detection callback).               *)
(***************************************************************************)
EXTENDS Integers, Sequences, FiniteSets, TLC

VARIABLES _hands, _smoothedHands, _prevHands, _ready, _running, _model,
          _smoothing, models, frame, delivered, deliveredBefore, err,
          stopped, asked, answer

vars == <<_hands, _smoothedHands, _prevHands, _ready, _running, _model,
          _smoothing, models, frame, delivered,
          deliveredBefore, err, stopped, asked, answer>>

(***************************************************************************)
(* Bounds of the model.                                                    *)
(***************************************************************************)
\* detection callbacks delivered in one run
MaxFrames == 3

\* posed frames delivered in one run of the posed-hand specification
MaxPoseFrames == 1

\* detection callbacks delivered in one run of a sketch that asks queries
MaxQueryFrames == 2

\* handPose instances created in one run of the lifecycle specification
MaxModels == 2

\* detection callbacks delivered in one run of a session that keeps the
\* default smoothing
MaxSmoothFrames == 3

(***************************************************************************)
(* JS values                                                               *)
(***************************************************************************)
\* a boolean or a string as the result of a query that may also throw
Bool(b) == [bool |-> b]
Text(t) == [string |-> t]

\* null / undefined as a result ("none")
Null == [null |-> TRUE]
\* an uncaught TypeError (property access on null)
TypeError == [throw |-> "TypeError"]

(***************************************************************************)
(* JS NUMBERS.  A number of the program is an IEEE-754 double.  A double   *)
(* that is a whole number n of 1/Unit, below Limit/Unit in magnitude, is   *)
(* kept as Fixed(n): sums, differences and products of such doubles are    *)
(* computed without rounding as long as the result is such a double.       *)
(* Every other double is kept as Double(neg, m, e), its sign, significand  *)
(* and exponent, and the operations on it give what the standard asks for: *)
(* the double nearest to the exact result, ties to the even significand.   *)
(* Each double is kept in one way only, so equal numbers are equal values. *)
(* All magnitudes are far inside the normal range (no overflow, no         *)
(* subnormal numbers), and -0 is not told from 0.                          *)
(***************************************************************************)
\* Math.abs of a machine integer
Abs(n) == IF n < 0 THEN -n ELSE n

\* Natural numbers of any size are kept as their digits in base LimbBase,
\* lowest first, without a leading zero digit; zero is <<>>.
LimbBits == 15
LimbBase == 2 ^ LimbBits

RECURSIVE Trim(_)
Trim(a) ==
  IF a = <<>> THEN a
  ELSE IF a[Len(a)] = 0 THEN Trim(SubSeq(a, 1, Len(a) - 1))
  ELSE a

RECURSIVE Big(_)
Big(n) == IF n = 0 THEN <<>> ELSE <<n % LimbBase>> \o Big(n \div LimbBase)

Digit(a, i) == IF i <= Len(a) THEN a[i] ELSE 0

\* a + b; from(i, c) is the digits from position i on, with carry c
BigAdd(a, b) ==
  LET RECURSIVE from(_, _)
      from(i, c) ==
        IF i > Len(a) /\ i > Len(b) THEN (IF c = 0 THEN <<>> ELSE <<c>>)
        ELSE LET t == Digit(a, i) + Digit(b, i) + c
             IN <<t % LimbBase>> \o from(i + 1, t \div LimbBase)
  IN from(1, 0)

\* a - b for a >= b; from(i, c) is the digits from position i on, with
\* borrow c
BigSub(a, b) ==
  LET RECURSIVE from(_, _)
      from(i, c) ==
        IF i > Len(a) THEN <<>>
        ELSE LET t == Digit(a, i) - Digit(b, i) - c
             IN <<IF t < 0 THEN t + LimbBase ELSE t>>
                  \o from(i + 1, IF t < 0 THEN 1 ELSE 0)
  IN Trim(from(1, 0))

\* the sign of a - b
BigCmp(a, b) ==
  LET RECURSIVE from(_)
      from(i) ==
        IF i = 0 THEN 0
        ELSE IF a[i] > b[i] THEN 1
        ELSE IF a[i] < b[i] THEN -1
        ELSE from(i - 1)
  IN IF Len(a) > Len(b) THEN 1
     ELSE IF Len(a) < Len(b) THEN -1
     ELSE from(Len(a))

\* a * c for a digit c
BigMulSmall(a, c) ==
  LET RECURSIVE from(_, _)
      from(i, carry) ==
        IF i > Len(a) THEN (IF carry = 0 THEN <<>> ELSE <<carry>>)
        ELSE LET t == a[i] * c + carry
             IN <<t % LimbBase>> \o from(i + 1, t \div LimbBase)
  IN IF c = 0 THEN <<>> ELSE from(1, 0)

\* a * LimbBase^n
ShiftDigits(a, n) == IF a = <<>> THEN a ELSE [k \in 1..n |-> 0] \o a

\* a * b
BigMul(a, b) ==
  LET RECURSIVE from(_)
      from(i) ==
        IF i > Len(b) THEN <<>>
        ELSE BigAdd(BigMulSmall(a, b[i]), ShiftDigits(from(i + 1), 1))
  IN from(1)

\* a divided by c, 0 < c <= LimbBase: the remainder of the digits from
\* position i on, the quotient and the remainder
RECURSIVE RemFrom(_, _, _)
RemFrom(a, c, i) ==
  IF i > Len(a) THEN 0 ELSE (RemFrom(a, c, i + 1) * LimbBase + a[i]) % c
BigDivSmall(a, c) ==
  Trim([i \in 1..Len(a) |-> (RemFrom(a, c, i + 1) * LimbBase + a[i]) \div c])
BigRemSmall(a, c) == RemFrom(a, c, 1)

\* the number of binary digits of a
RECURSIVE Bits(_)
Bits(n) == IF n = 0 THEN 0 ELSE 1 + Bits(n \div 2)
BitLength(a) ==
  IF a = <<>> THEN 0 ELSE (Len(a) - 1) * LimbBits + Bits(a[Len(a)])

\* a * 2^n and the integer part of a / 2^n
ShiftLeft(a, n) ==
  ShiftDigits(BigMulSmall(a, 2 ^ (n % LimbBits)), n \div LimbBits)
ShiftRight(a, n) ==
  IF n \div LimbBits >= Len(a) THEN <<>>
  ELSE BigDivSmall(SubSeq(a, n \div LimbBits + 1, Len(a)), 2 ^ (n % LimbBits))

\* the integer part of the square root of a: r with its digits from
\* position i down replaced, each by the largest digit that keeps the square
\* within a (between(lo, hi) is the largest such digit in lo..hi)
RECURSIVE BigRoot(_, _, _)
BigRoot(a, r, i) ==
  LET with(d) == BigAdd(r, ShiftDigits(Big(d), i - 1))
      fits(n) == BigCmp(BigMul(n, n), a) <= 0
      RECURSIVE between(_, _)
      between(lo, hi) ==
        IF lo = hi THEN lo
        ELSE IF fits(with((lo + hi + 1) \div 2))
             THEN between((lo + hi + 1) \div 2, hi)
             ELSE between(lo, (lo + hi + 1) \div 2 - 1)
  IN IF i = 0 THEN r ELSE BigRoot(a, with(between(0, LimbBase - 1)), i - 1)

\* the largest r in lo..hi with r * r <= n, for machine integers
RECURSIVE WholeRoot(_, _, _)
WholeRoot(n, lo, hi) ==
  IF lo = hi THEN lo
  ELSE IF ((lo + hi + 1) \div 2) * ((lo + hi + 1) \div 2) <= n
       THEN WholeRoot(n, (lo + hi + 1) \div 2, hi)
       ELSE WholeRoot(n, lo, (lo + hi + 1) \div 2 - 1)

\* The number m * 2^e, negated when neg.  As a double it has a significand
\* m of Precision binary digits; zero has m = <<>>.
Precision == 53
Double(neg, m, e) == [neg |-> neg, m |-> m, e |-> e]

\* The number n / Unit.  UnitBits and LimitBits are the binary digits of
\* Unit and of the whole numbers n kept this way.
UnitBits == 6
Unit == 2 ^ UnitBits
LimitBits == 29
Limit == 2 ^ LimitBits
Fixed(n) == [q |-> n]
IsFixed(x) == "q" \in DOMAIN x
Zero == Fixed(0)

\* the double nearest to a number between m * 2^e and (m + 1) * 2^e: it is
\* m * 2^e itself unless `more`; ties go to the even significand
\* (s is the number of binary digits m has too many, q is m without them,
\* rest the sign of the digits cut off less half a unit of q, r the rounded q)
Round(neg, m, e, more) ==
  LET fit(r, s) ==
        IF BitLength(r) > Precision THEN Double(neg, ShiftRight(r, 1), e + s + 1)
        ELSE Double(neg, r, e + s)
      nearest(q, rest) ==
        IF rest > 0 \/ (rest = 0 /\ (more \/ q[1] % 2 = 1))
        THEN BigAdd(q, Big(1)) ELSE q
      cut(q, s) ==
        fit(nearest(q, BigCmp(BigSub(m, ShiftLeft(q, s)),
                              ShiftLeft(Big(1), s - 1))), s)
      to(s) ==
        IF s <= 0 THEN Double(neg, ShiftLeft(m, -s), e + s)
        ELSE cut(ShiftRight(m, s), s)
  IN IF m = <<>> THEN Double(FALSE, <<>>, 0) ELSE to(BitLength(m) - Precision)

\* the one way the double d is kept: Fixed(n) when d is n / Unit for a whole
\* number n below Limit (s is the number of binary digits of d.m below
\* 1/Unit, a the digits above them)
Canon(d) ==
  LET s == -(d.e + UnitBits)
      n(a) == Digit(a, 1) + Digit(a, 2) * LimbBase
      whole(a) ==
        IF ShiftLeft(a, s) = d.m THEN Fixed(IF d.neg THEN -n(a) ELSE n(a))
        ELSE d
  IN IF d.m = <<>> THEN Zero
     ELSE IF s >= Precision - LimitBits /\ s < Precision
          THEN whole(ShiftRight(d.m, s))
     ELSE d

\* the number x with sign, significand and exponent (a whole number m of
\* 1/Unit is m * 2^s on the exponent -(UnitBits + s))
Unpack(x) ==
  LET of(m, s) == Double(x.q < 0, ShiftLeft(m, s), -(UnitBits + s))
      whole(m) == of(m, Precision - BitLength(m))
  IN IF IsFixed(x) THEN whole(Big(Abs(x.q))) ELSE x

\* the whole number n, below Limit / Unit in magnitude
Whole(n) == Fixed(n * Unit)
One == Whole(1)

\* a decimal literal of the sources with up to three decimals is written as
\* the whole number c of 1/Scale; its JS number is the double nearest to
\* c / Scale
Scale == 10 * 10 * 10
DoubleOf(c) ==
  LET of(a) ==
        Canon(Round(c < 0, BigDivSmall(a, Scale), -(5 * LimbBits),
                    BigRemSmall(a, Scale) # 0))
  IN IF c % Scale = 0 THEN Whole(c \div Scale)
     ELSE of(ShiftLeft(Big(Abs(c)), 5 * LimbBits))

\* the double nearest to x + y, x * y, the square root of x and x / n
\* (0 < n <= LimbBase), for numbers with sign, significand and exponent
Sum(x, y) ==
  IF x.m = <<>> THEN y
  ELSE IF y.m = <<>> THEN x
  ELSE LET \* a and b are the significands of x and y on the exponent e
           on(a, b, e) ==
             Round(IF x.neg = y.neg \/ BigCmp(a, b) >= 0 THEN x.neg ELSE y.neg,
                   IF x.neg = y.neg THEN BigAdd(a, b)
                   ELSE IF BigCmp(a, b) >= 0 THEN BigSub(a, b)
                   ELSE BigSub(b, a),
                   e, FALSE)
           at(e) == on(ShiftLeft(x.m, x.e - e), ShiftLeft(y.m, y.e - e), e)
       IN at(IF x.e < y.e THEN x.e ELSE y.e)
Product(x, y) == Round(x.neg # y.neg, BigMul(x.m, y.m), x.e + y.e, FALSE)
SquareRoot(x) ==
  LET k == 4 * LimbBits - (x.e % 2)
      of(a, r) ==
        Round(FALSE, r, (x.e - k) \div 2, BigCmp(BigMul(r, r), a) # 0)
      root(a) == of(a, BigRoot(a, <<>>, 4))
  IN root(ShiftLeft(x.m, k))
Quotient(x, n) ==
  LET of(a) ==
        Round(x.neg, BigDivSmall(a, n), x.e - 4 * LimbBits,
              BigRemSmall(a, n) # 0)
  IN of(ShiftLeft(x.m, 4 * LimbBits))

\* -x, x + y, x - y, x * y, Math.abs(x), Math.sqrt(x) and x / n for a whole
\* number n, 0 < n <= LimbBase
DNeg(x) == IF IsFixed(x) THEN Fixed(-x.q) ELSE [x EXCEPT !.neg = ~x.neg]
DAdd(x, y) ==
  IF IsFixed(x) /\ IsFixed(y) /\ Abs(x.q + y.q) < Limit THEN Fixed(x.q + y.q)
  ELSE Canon(Sum(Unpack(x), Unpack(y)))
DSub(x, y) == DAdd(x, DNeg(y))
DMul(x, y) ==
  IF /\ IsFixed(x) /\ IsFixed(y) /\ Abs(x.q) < LimbBase /\ Abs(y.q) < LimbBase
     /\ (x.q * y.q) % Unit = 0
  THEN Fixed((x.q * y.q) \div Unit)
  ELSE Canon(Product(Unpack(x), Unpack(y)))
DAbs(x) == IF IsFixed(x) THEN Fixed(Abs(x.q)) ELSE [x EXCEPT !.neg = FALSE]
DSqrt(x) ==
  LET \* r is the whole root of x in units of 1/Unit, if any (else -1)
      of(r) ==
        IF r >= 0 /\ r * r = x.q THEN Fixed(r * 2 ^ (UnitBits \div 2))
        ELSE Canon(SquareRoot(Unpack(x)))
  IN of(IF IsFixed(x) THEN WholeRoot(x.q, 0, LimbBase - 1) ELSE -1)
DDivSmall(x, n) ==
  IF IsFixed(x) /\ x.q % n = 0 THEN Fixed(x.q \div n)
  ELSE Canon(Quotient(Unpack(x), n))

\* the sign of x, and the sign of x - y
Sign(x) ==
  IF IsFixed(x) THEN (IF x.q > 0 THEN 1 ELSE IF x.q < 0 THEN -1 ELSE 0)
  ELSE IF x.neg THEN -1 ELSE 1
DCmp(x, y) == Sign(DSub(x, y))

\* the tenth n / 10 as the sources write it (0.3, 0.5)
Tenths(n) == DoubleOf(n * (Scale \div 10))

\* the values of options.smoothing explored: 0, 0.5 and 1
SmoothingChoices == {Tenths(0), Tenths(5), Tenths(10)}

(***************************************************************************)
(* KEYPOINT CONSTANTS                                                      *)
(***************************************************************************)
\* KP: keypoint name -> index; the model's sequences are 1-based, so the
\* JS index i is position i + 1 of KPNames.
KPNames == << "wrist",
  "thumb_cmc", "thumb_mcp", "thumb_ip", "thumb_tip",
  "index_finger_mcp", "index_finger_pip", "index_finger_dip", "index_finger_tip",
  "middle_finger_mcp", "middle_finger_pip", "middle_finger_dip", "middle_finger_tip",
  "ring_finger_mcp", "ring_finger_pip", "ring_finger_dip", "ring_finger_tip",
  "pinky_finger_mcp", "pinky_finger_pip", "pinky_finger_dip", "pinky_finger_tip" >>

NumKeypoints == Len(KPNames)

\* KP[name]: the 1-based position of name, 0 when KP[name] is undefined
KP(name) ==
  IF \E i \in 1..NumKeypoints : KPNames[i] = name
  THEN CHOOSE i \in 1..NumKeypoints : KPNames[i] = name
  ELSE 0

FINGER_NAMES == <<"thumb", "index", "middle", "ring", "pinky">>

TIP_NAMES == [thumb |-> "thumb_tip", index |-> "index_finger_tip",
              middle |-> "middle_finger_tip", ring |-> "ring_finger_tip",
              pinky |-> "pinky_finger_tip"]

PIP_NAMES == [thumb |-> "thumb_ip", index |-> "index_finger_pip",
              middle |-> "middle_finger_pip", ring |-> "ring_finger_pip",
              pinky |-> "pinky_finger_pip"]

IsFingerName(n) == \E i \in 1..Len(FINGER_NAMES) : FINGER_NAMES[i] = n

\* KP, TIP_NAMES, PIP_NAMES and FINGER_CONNECTIONS are plain objects: a
\* lookup by one of these names finds the property they inherit from
\* Object.prototype, a function or an object: truthy, not undefined, no
\* string and no array
ObjectPrototypeNames ==
  {"constructor", "toString", "toLocaleString", "valueOf", "hasOwnProperty",
   "isPrototypeOf", "propertyIsEnumerable", "__proto__", "__defineGetter__",
   "__defineSetter__", "__lookupGetter__", "__lookupSetter__"}
IsInherited(n) == n \in ObjectPrototypeNames

\* a name argument that is no string: undefined (the argument was omitted,
\* or a table had no such key) or a value inherited from Object.prototype.
\* It is the key of no table and equals the name of no keypoint. As in the
\* arguments of the queries, "" stands for it.
NoName == ""

(***************************************************************************)
(* Hands delivered by the detector.  A hand is                             *)
(*   [ref, handedness, keypoints]                                          *)
(* keypoints a 21-slot list whose slots are Null or [x, y, name], x and y  *)
(* numbers.                                                                *)
(***************************************************************************)
Handedness == {"Left", "Right"}

\* The detector's hand shapes: the wrist at the origin, finger f (0 thumb ..
\* 4 pinky) in a column 20 px apart, joints 20 px apart going up (y shrinks).
\* A finger in `curled` has its dip and tip folded back towards the wrist.
JointX(f) == (f - 2) * 20
JointY(j, isCurled) ==
  IF isCurled THEN (CASE j = 1 -> -40 [] j = 2 -> -60 [] j = 3 -> -50 [] OTHER -> -30)
  ELSE -(20 + 20 * j)

\* slot i (1-based) of a hand whose wrist is at (ox, oy) px
HandPoint(i, ox, oy, curled) ==
  IF i = 1 THEN [x |-> Whole(ox), y |-> Whole(oy), name |-> KPNames[1]]
  ELSE LET f == (i - 2) \div 4
           j == ((i - 2) % 4) + 1
       IN [x |-> Whole(ox + JointX(f)),
           y |-> Whole(oy + JointY(j, FINGER_NAMES[f + 1] \in curled)),
           name |-> KPNames[i]]

\* a detector hand: `missing` are the slots the detector could not localize
MakeHand(ref, side, ox, oy, curled, missing) ==
  [ref |-> ref, handedness |-> side,
   keypoints |-> [i \in 1..NumKeypoints |->
                    IF i \in missing THEN Null ELSE HandPoint(i, ox, oy, curled)]]

\* One hand of a delivered frame, as the detector's choice: its side, the
\* wrist position (px) and the slots the detector could not localize.
Pick(side, ox, oy, missing) ==
  [side |-> side, at |-> <<ox, oy>>, missing |-> missing]

\* The frames the detector delivers here: no hand; one hand of either side at
\* (100,100) or (110,104), a Right hand at (105,80), a Right hand whose wrist
\* slot is null or a Left hand whose index fingertip slot is null; two hands
\* in every combination of sides, or with the first one's wrist null.
FrameChoices ==
  {<<>>}
  \cup {<<Pick(s, 100, 100, {})>> : s \in Handedness}
  \cup {<<Pick(s, 110, 104, {})>> : s \in Handedness}
  \cup {<<Pick("Right", 105, 80, {})>>}
  \cup {<<Pick("Right", 100, 100, {1})>>, <<Pick("Left", 100, 100, {9})>>}
  \cup {<<Pick(s1, 100, 100, {}), Pick(s2, 120, 100, {})>> :
          s1 \in Handedness, s2 \in Handedness}
  \cup {<<Pick("Right", 110, 104, {1}), Pick("Left", 120, 100, {})>>}

\* the list of hand objects of frame number n, freshly allocated
RawHands(choice, n) ==
  [i \in 1..Len(choice) |->
     MakeHand(<<"raw", n, i>>, choice[i].side, choice[i].at[1], choice[i].at[2],
              {}, choice[i].missing)]

\* A posed hand of the detector: each finger straight up, curled (in
\* `curled`), or with its tip as far from the wrist as its pip (thumb: ip)
\* on the other side of the wrist (in `level`).
Pose(side, curled, level, missing) ==
  [side |-> side, curled |-> curled, level |-> level, missing |-> missing]

\* slot i (1-based) of a posed hand whose wrist is at (100,100) px
PosePoint(i, pose) ==
  LET f == (i - 2) \div 4
      j == ((i - 2) % 4) + 1
      finger == FINGER_NAMES[f + 1]
      pipJoint == IF f = 0 THEN 3 ELSE 2
  IN IF i > 1 /\ j = 4 /\ finger \in pose.level
     THEN [x |-> Whole(100 + JointX(f)),
           y |-> Whole(100 - JointY(pipJoint, FALSE)),
           name |-> KPNames[i]]
     ELSE HandPoint(i, 100, 100, pose.curled)

PoseHand(ref, pose) ==
  [ref |-> ref, handedness |-> pose.side,
   keypoints |-> [i \in 1..NumKeypoints |->
                    IF i \in pose.missing THEN Null ELSE PosePoint(i, pose)]]

Fingers == {FINGER_NAMES[i] : i \in 1..Len(FINGER_NAMES)}

\* The posed frames the detector delivers: no hand; a Right hand in each of
\* the 32 combinations of straight and curled fingers; a Left hand with the
\* index tip, or the thumb tip, level with its pip; hands with the wrist, the
\* index tip, the index pip or every slot null; an open Right hand with a
\* Left fist, and the two the other way round; a Left hand open, as a fist,
\* or with one finger curled.
PoseChoices ==
  {<<>>}
  \cup {<<Pose("Right", c, {}, {})>> : c \in SUBSET Fingers}
  \cup {<<Pose("Left", {"ring"}, {"index"}, {})>>,
        <<Pose("Left", {}, {"thumb"}, {})>>}
  \cup {<<Pose("Right", {}, {}, {1})>>, <<Pose("Left", {"thumb"}, {}, {9})>>,
        <<Pose("Right", {}, {}, {7})>>, <<Pose("Left", {}, {}, 1..NumKeypoints)>>}
  \cup {<<Pose("Right", {}, {}, {}), Pose("Left", Fingers, {}, {})>>,
        <<Pose("Left", Fingers, {}, {}), Pose("Right", {}, {}, {})>>}
  \cup {<<Pose("Left", c, {}, {})>> : c \in {{}, Fingers}}
  \cup {<<Pose("Left", {f}, {}, {})>> : f \in Fingers}

\* the list of hand objects of posed frame number n, freshly allocated
PoseHands(choice, n) ==
  [i \in 1..Len(choice) |-> PoseHand(<<"raw", n, i>>, choice[i])]

\* no query made yet since the last callback
NoQuery == [op |-> "none"]

\* the argument of the detection callback: a list of hands, or null
Results(hs) == [isNull |-> FALSE, hands |-> hs]
NoResults == [isNull |-> TRUE, hands |-> <<>>]

\* value equality of two hands / hand lists (same data, any identity)
SameHand(a, b) == a.handedness = b.handedness /\ a.keypoints = b.keypoints
SameHands(as, bs) ==
  Len(as) = Len(bs) /\ \A i \in 1..Len(as) : SameHand(as[i], bs[i])
Refs(hs) == {hs[i].ref : i \in 1..Len(hs)}

(***************************************************************************)
(* The `which` argument of a query: omitted, a string (a list of           *)
(* characters, so that letter case and prefixes are computed), or a hand   *)
(* object.                                                                 *)
(***************************************************************************)
Undefined == [type |-> "undefined"]
Num(n) == [type |-> "number", value |-> n]
Str(chars) == [type |-> "string", chars |-> chars]
Obj(h) == [type |-> "object", hand |-> h]

UpperChars ==
  << "A", "B", "C", "D", "E", "F", "G", "H", "I", "J", "K", "L", "M",
     "N", "O", "P", "Q", "R", "S", "T", "U", "V", "W", "X", "Y", "Z" >>
LowerChars ==
  << "a", "b", "c", "d", "e", "f", "g", "h", "i", "j", "k", "l", "m",
     "n", "o", "p", "q", "r", "s", "t", "u", "v", "w", "x", "y", "z" >>

\* String.prototype.toLowerCase, character by character (the characters of
\* the model's strings are ASCII)
LowerChar(c) ==
  IF \E k \in 1..Len(UpperChars) : UpperChars[k] = c
  THEN LowerChars[CHOOSE k \in 1..Len(UpperChars) : UpperChars[k] = c]
  ELSE c
ToLowerCase(s) == [k \in 1..Len(s) |-> LowerChar(s[k])]

\* /^(left|right|l|r)$/i.test(s)
SideRegex(s) ==
  ToLowerCase(s) \in {<<"l", "e", "f", "t">>, <<"r", "i", "g", "h", "t">>,
                      <<"l">>, <<"r">>}

\* s.startsWith("l")
StartsWithL(s) == Len(s) >= 1 /\ s[1] = "l"

\* Array.prototype.find: the first element satisfying the test, else Null
FindByHandedness(hs, wanted) ==
  IF \E i \in 1..Len(hs) : hs[i].handedness = wanted
  THEN hs[CHOOSE i \in 1..Len(hs) :
            /\ hs[i].handedness = wanted
            /\ \A k \in 1..(i - 1) : hs[k].handedness # wanted]
  ELSE Null

(***************************************************************************)
(* INTERNAL HELPERS                                                        *)
(***************************************************************************)
\* the set queries read: _smoothing > 0 ? _smoothedHands : _hands
Source == IF Sign(_smoothing) > 0 THEN _smoothedHands ELSE _hands

\* _resolveHand as it would be with the single-hand fallback applied to
\* explicit side tokens too (the strictness test `!explicit` left out)
ResolveInLenient(which, source) ==
  IF which.type = "object" THEN which.hand
  ELSE IF Len(source) = 0 THEN Null
  ELSE
    LET w == IF which.type = "undefined" \/ Len(which.chars) = 0
             THEN <<"r", "i", "g", "h", "t">>
             ELSE ToLowerCase(which.chars)
        wanted == IF StartsWithL(w) THEN "Left" ELSE "Right"
        found == FindByHandedness(source, wanted)
    IN IF w = <<"a", "n", "y">> \/ w = <<"f", "i", "r", "s", "t">> THEN source[1]
       ELSE IF found = Null /\ Len(source) = 1 THEN source[1]
       ELSE found

\* _resolveHand as it would be without the single-hand fallback
ResolveInNoFallback(which, source) ==
  IF which.type = "object" THEN which.hand
  ELSE IF Len(source) = 0 THEN Null
  ELSE
    LET w == IF which.type = "undefined" \/ Len(which.chars) = 0
             THEN <<"r", "i", "g", "h", "t">>
             ELSE ToLowerCase(which.chars)
        wanted == IF StartsWithL(w) THEN "Left" ELSE "Right"
    IN IF w = <<"a", "n", "y">> \/ w = <<"f", "i", "r", "s", "t">> THEN source[1]
       ELSE FindByHandedness(source, wanted)

\* _resolveHand as it would be if a hand object were not returned as it is
\* but treated like an omitted token
ResolveInIgnoringObject(which, source) ==
  IF Len(source) = 0 THEN Null
  ELSE
    LET isString == which.type = "string"
        explicit == isString /\ SideRegex(which.chars)
        w == IF ~isString \/ Len(which.chars) = 0
             THEN <<"r", "i", "g", "h", "t">>
             ELSE ToLowerCase(which.chars)
        wanted == IF StartsWithL(w) THEN "Left" ELSE "Right"
        found == FindByHandedness(source, wanted)
    IN IF w = <<"a", "n", "y">> \/ w = <<"f", "i", "r", "s", "t">> THEN source[1]
       ELSE IF found = Null /\ Len(source) = 1 /\ ~explicit THEN source[1]
       ELSE found

\* _resolveHand as it would be without the "any"/"first" line: the token is
\* then read as a side, "Right" unless it starts with "l"
ResolveInAnyAsSide(which, source) ==
  IF which.type = "object" THEN which.hand
  ELSE IF Len(source) = 0 THEN Null
  ELSE
    LET explicit == which.type = "string" /\ SideRegex(which.chars)
        w == IF which.type = "undefined" \/ Len(which.chars) = 0
             THEN <<"r", "i", "g", "h", "t">>
             ELSE ToLowerCase(which.chars)
        wanted == IF StartsWithL(w) THEN "Left" ELSE "Right"
        found == FindByHandedness(source, wanted)
    IN IF found = Null /\ Len(source) = 1 /\ ~explicit THEN source[1]
       ELSE found

\* _resolveHand on a given source list
ResolveIn(which, source) ==
  IF which.type = "object" THEN which.hand
  ELSE IF Len(source) = 0 THEN Null
  ELSE
    LET explicit == which.type = "string" /\ SideRegex(which.chars)
        \* (which || "right").toLowerCase(): undefined and "" are falsy
        w == IF which.type = "undefined" \/ Len(which.chars) = 0
             THEN <<"r", "i", "g", "h", "t">>
             ELSE ToLowerCase(which.chars)
        wanted == IF StartsWithL(w) THEN "Left" ELSE "Right"
        found == FindByHandedness(source, wanted)
    IN IF w = <<"a", "n", "y">> \/ w = <<"f", "i", "r", "s", "t">> THEN source[1]
       ELSE IF found = Null /\ Len(source) = 1 /\ ~explicit THEN source[1]
       ELSE found

ResolveHand(which) == ResolveIn(which, Source)

\* _getKeypoint(hand, name).  `if (TIP_NAMES[name]) name = TIP_NAMES[name]`
\* replaces a finger name by its tip's name and an inherited name by the
\* inherited value, which is no string.  When the slot KP[name] is null or
\* KP[name] is undefined the code falls to
\* keypoints.find(kp => kp.name === name), which reads .name of every slot in
\* order and throws a TypeError at the first null slot it meets.
GetKeypoint(hand, name) ==
  IF hand = Null THEN Null
  ELSE
    LET n == IF IsFingerName(name) THEN TIP_NAMES[name]
             ELSE IF IsInherited(name) THEN NoName
             ELSE name
        idx == IF n = NoName THEN 0 ELSE KP(n)
        kps == hand.keypoints
        hit(i) == n # NoName /\ kps[i] # Null /\ kps[i].name = n
        \* slots the find callback visits before it returns or throws
        stop == {i \in 1..Len(kps) : kps[i] = Null \/ hit(i)}
        first == CHOOSE i \in stop : \A k \in stop : i <= k
    IN IF idx # 0 /\ kps[idx] # Null THEN kps[idx]
       ELSE IF stop = {} THEN Null
       ELSE IF kps[first] = Null THEN TypeError
       ELSE kps[first]

\* _lerp(a, b, t): a + (b - a) * t
Lerp(a, b, t) == DAdd(a, DMul(DSub(b, a), t))

\* JSON.parse(JSON.stringify(h)): a new object (ref) holding the JSON image
\* of h: handedness, and per slot null or the slot's x, y and name
JsonCopy(h, ref) ==
  [ref |-> ref, handedness |-> h.handedness,
   keypoints |-> [i \in 1..Len(h.keypoints) |->
                    IF h.keypoints[i] = Null THEN Null
                    ELSE [x |-> h.keypoints[i].x, y |-> h.keypoints[i].y,
                          name |-> h.keypoints[i].name]]]

\* the body of _smoothHands' loop for one raw hand with a previous smoothed
\* hand of its handedness: a copy of raw whose slots are lerped from prev.
\* A slot that prev has and raw lacks makes smoothed.keypoints[i].x throw.
SmoothOne(raw, prev, t, ref) ==
  IF \E i \in 1..Len(raw.keypoints) :
        /\ i <= Len(prev.keypoints) /\ prev.keypoints[i] # Null
        /\ raw.keypoints[i] = Null
  THEN TypeError
  ELSE [JsonCopy(raw, ref) EXCEPT !.keypoints =
          [i \in 1..Len(raw.keypoints) |->
             IF i <= Len(prev.keypoints) /\ prev.keypoints[i] # Null
             THEN [x |-> Lerp(prev.keypoints[i].x, raw.keypoints[i].x, t),
                   y |-> Lerp(prev.keypoints[i].y, raw.keypoints[i].y, t),
                   name |-> raw.keypoints[i].name]
             ELSE @[i]]]

\* the smoothed hand _smoothHands pushes for raw hand number hi of callback
\* n, with t = 1 - _smoothing
SmoothEntry(rawHands, hi, n) ==
  LET raw == rawHands[hi]
      prev == FindByHandedness(_smoothedHands, raw.handedness)
  IN IF prev = Null THEN JsonCopy(raw, <<"smooth", n, hi>>)
     ELSE SmoothOne(raw, prev, DSub(One, _smoothing), <<"smooth", n, hi>>)

\* _smoothHands as it would be without the pass-through of smoothing 0: every
\* raw hand is copied and filtered, whatever the factor
SmoothHandsAlwaysFilter(rawHands, n) ==
  IF \E hi \in 1..Len(rawHands) : SmoothEntry(rawHands, hi, n) = TypeError
  THEN [throws |-> TRUE, hands |-> _smoothedHands]
  ELSE [throws |-> FALSE,
        hands |-> [hi \in 1..Len(rawHands) |-> SmoothEntry(rawHands, hi, n)]]

\* _smoothHands(rawHands): whether the loop throws before the assignment
\* (the old _smoothedHands stays), and else the value assigned
SmoothHands(rawHands, n) ==
  IF Sign(_smoothing) <= 0 THEN [throws |-> FALSE, hands |-> rawHands]
  ELSE IF \E hi \in 1..Len(rawHands) : SmoothEntry(rawHands, hi, n) = TypeError
       THEN [throws |-> TRUE, hands |-> _smoothedHands]
       ELSE [throws |-> FALSE,
             hands |-> [hi \in 1..Len(rawHands) |-> SmoothEntry(rawHands, hi, n)]]

\* the snapshot as it would be if _prevHands were set to the active list
\* itself, without copying its hands
PrevSnapshotAlias(n) == Source

\* the snapshot _handleResults stores in _prevHands: a JSON copy of every
\* hand of the set that was active before the callback
PrevSnapshot(n) ==
  [i \in 1..Len(Source) |-> JsonCopy(Source[i], <<"prev", n, i>>)]

(***************************************************************************)
(* The detection callback _handleResults(results), delivered by a model    *)
(* instance that has loaded and is detecting.  results is a frame of the   *)
(* detector, or null/undefined (results || []).                            *)
(***************************************************************************)
HandleResults(results) ==
  LET n == frame + 1
      raw == IF results.isNull THEN <<>> ELSE results.hands
      sm == SmoothHands(raw, n)
  IN /\ _prevHands' = PrevSnapshot(n)
     /\ _hands' = raw
     /\ _smoothedHands' = sm.hands
     /\ err' = IF sm.throws THEN "TypeError" ELSE "ok"
     /\ delivered' = results
     /\ deliveredBefore' = delivered
     /\ frame' = n

DetectCallback ==
  /\ frame < MaxFrames
  /\ \E m \in DOMAIN models : models[m].loaded /\ models[m].detecting
  /\ \E results \in {Results(RawHands(c, frame + 1)) : c \in FrameChoices}
                      \cup {NoResults} :
       HandleResults(results)
  /\ asked' = NoQuery /\ answer' = Null
  /\ UNCHANGED <<_ready, _running, _model, _smoothing, models, stopped>>

\* The frames the detector delivers to a sketch that is asking: no hand, an
\* open Right hand at (100,100) or at (105,80), a Left hand whose index
\* fingertip slot is null.
QueriedChoices ==
  {<<>>, <<Pick("Right", 100, 100, {})>>, <<Pick("Right", 105, 80, {})>>,
   <<Pick("Left", 100, 100, {9})>>}

\* the same callback, delivering one of these frames
DetectQueried ==
  /\ frame < MaxQueryFrames
  /\ \E m \in DOMAIN models : models[m].loaded /\ models[m].detecting
  /\ \E results \in {Results(RawHands(c, frame + 1)) : c \in QueriedChoices} :
       HandleResults(results)
  /\ asked' = NoQuery /\ answer' = Null
  /\ UNCHANGED <<_ready, _running, _model, _smoothing, models, stopped>>

\* the same callback, delivering a posed frame
DetectPose ==
  /\ frame < MaxPoseFrames
  /\ \E m \in DOMAIN models : models[m].loaded /\ models[m].detecting
  /\ \E results \in {Results(PoseHands(c, frame + 1)) : c \in PoseChoices}
                      \cup {NoResults} :
       HandleResults(results)
  /\ asked' = NoQuery /\ answer' = Null
  /\ UNCHANGED <<_ready, _running, _model, _smoothing, models, stopped>>

(***************************************************************************)
(* INITIALIZATION.  models[m] is the ml5 model instance number m: the      *)
(* kind of its pending "model loaded" callback (registered by loadHands or *)
(* by initHands), whether that callback has run, and whether               *)
(* detectStart has been called on it without a later detectStop.  _model   *)
(* is 0 for null, else the number of the instance it refers to.            *)
(***************************************************************************)
NewModel(kind) == [kind |-> kind, loaded |-> FALSE, detecting |-> FALSE]

\* _model.detectStart(_video, _handleResults) / _model.detectStop()
SetDetecting(b) == [models EXCEPT ![_model].detecting = b]

\* loadHands(options), options.smoothing = s (0.3 when left out)
LoadHands(s) ==
  /\ _smoothing' = s
  /\ models' = Append(models, NewModel("load"))
  /\ _model' = Len(models) + 1
  /\ UNCHANGED stopped
  /\ UNCHANGED <<_hands, _smoothedHands, _prevHands, _ready, _running,
                 frame, delivered, deliveredBefore, err>>
  /\ asked' = NoQuery /\ answer' = Null

\* startHands(): starts detection when a model exists and none is running
StartHands ==
  /\ IF _model # 0 /\ ~_running
     THEN models' = SetDetecting(TRUE) /\ _running' = TRUE
     ELSE UNCHANGED <<models, _running>>
  /\ stopped' = FALSE
  /\ UNCHANGED <<_hands, _smoothedHands, _prevHands, _ready, _model,
                 _smoothing, frame, delivered, deliveredBefore, err>>
  /\ asked' = NoQuery /\ answer' = Null

\* initHands(options)
InitHands(s) ==
  /\ _smoothing' = s
  /\ models' = Append(models, NewModel("init"))
  /\ _model' = Len(models) + 1
  /\ stopped' = FALSE
  /\ UNCHANGED <<_hands, _smoothedHands, _prevHands, _ready, _running,
                 frame, delivered, deliveredBefore, err>>
  /\ asked' = NoQuery /\ answer' = Null

\* the callback ml5.handPose runs once instance m has loaded: the one
\* loadHands registered sets _ready; the one initHands registered also
\* starts detection on whatever _model refers to by then
ModelLoaded(m) ==
  /\ ~models[m].loaded
  /\ _ready' = TRUE
  /\ IF models[m].kind = "init"
     THEN /\ models' = [SetDetecting(TRUE) EXCEPT ![m].loaded = TRUE]
          /\ _running' = TRUE
     ELSE /\ models' = [models EXCEPT ![m].loaded = TRUE]
          /\ UNCHANGED _running
  /\ UNCHANGED stopped
  /\ UNCHANGED <<_hands, _smoothedHands, _prevHands, _model, _smoothing,
                 frame, delivered, deliveredBefore, err>>
  /\ asked' = NoQuery /\ answer' = Null

\* stopHands()
StopHands ==
  /\ IF _model # 0 /\ _running
     THEN models' = SetDetecting(FALSE) /\ _running' = FALSE
     ELSE UNCHANGED <<models, _running>>
  /\ stopped' = TRUE
  /\ UNCHANGED <<_hands, _smoothedHands, _prevHands, _ready, _model,
                 _smoothing, frame, delivered, deliveredBefore, err>>
  /\ asked' = NoQuery /\ answer' = Null

(***************************************************************************)
(* DATA ACCESS and MATH & UTILITY: the queries, as functions of the state. *)
(***************************************************************************)
\* getHands()
GetHands == IF Sign(_smoothing) > 0 THEN _smoothedHands ELSE _hands

\* getHand(which)
GetHand(which) == ResolveHand(which)

\* handDetected(which)
HandDetected(which) == ResolveHand(which) # Null

\* handCount()
HandCount == Len(IF Sign(_smoothing) > 0 THEN _smoothedHands ELSE _hands)

\* handsReady()
HandsReady == _ready /\ _running

\* /^(left|right|l|r|any|first)$/i.test(s)
SideAnyRegex(s) ==
  SideRegex(s) \/ ToLowerCase(s) \in {<<"a", "n", "y">>, <<"f", "i", "r", "s", "t">>}

\* the string a one-argument call passes in `which`, taken as the name
\* (`name = which`, `finger = which`): the characters put together
RECURSIVE StringOf(_)
StringOf(chars) ==
  IF chars = <<>> THEN "" ELSE chars[1] \o StringOf(Tail(chars))

\* pointVelocity as it would be if the previous sample were always taken
\* from the previous frame's Right hand, not from the hand with the resolved
\* hand's handedness
PointVelocityPrevRight(which, name) ==
  LET shift == name = "" /\ which.type = "string" /\ ~SideAnyRegex(which.chars)
      nm0 == IF shift THEN StringOf(which.chars) ELSE name
      w == IF shift THEN Undefined ELSE which
      nm == IF nm0 = "" THEN "wrist" ELSE nm0
      hand == ResolveHand(w)
      curr == GetKeypoint(hand, nm)
      prevHand == FindByHandedness(_prevHands, "Right")
      prev == IF prevHand # Null THEN GetKeypoint(prevHand, nm) ELSE Null
  IN IF curr = TypeError \/ prev = TypeError THEN TypeError
     ELSE IF curr = Null \/ prev = Null THEN Null
     ELSE LET of(vx, vy) ==
                [x |-> vx, y |-> vy,
                 speedSq |-> DAdd(DMul(vx, vx), DMul(vy, vy))]
          IN of(DSub(curr.x, prev.x), DSub(curr.y, prev.y))

\* pointVelocity(which, name); name "" stands for an omitted name.  The
\* result is Null, TypeError (thrown by _getKeypoint) or [x, y, speedSq]:
\* the speed the code returns is Math.sqrt(speedSq), speedSq the number
\* vx * vx + vy * vy.
PointVelocity(which, name) ==
  LET shift == name = "" /\ which.type = "string" /\ ~SideAnyRegex(which.chars)
      nm0 == IF shift THEN StringOf(which.chars) ELSE name
      w == IF shift THEN Undefined ELSE which
      nm == IF nm0 = "" THEN "wrist" ELSE nm0
      hand == ResolveHand(w)
      curr == GetKeypoint(hand, nm)
      wanted == IF hand # Null THEN hand.handedness ELSE "Right"
      prevHand == FindByHandedness(_prevHands, wanted)
      prev == IF prevHand # Null THEN GetKeypoint(prevHand, nm) ELSE Null
  IN IF curr = TypeError \/ prev = TypeError THEN TypeError
     ELSE IF curr = Null \/ prev = Null THEN Null
     ELSE LET of(vx, vy) ==
                [x |-> vx, y |-> vy,
                 speedSq |-> DAdd(DMul(vx, vx), DMul(vy, vy))]
          IN of(DSub(curr.x, prev.x), DSub(curr.y, prev.y))

(***************************************************************************)
(* DISTANCES                                                               *)
(***************************************************************************)
\* _dist(p1, p2): Infinity when a point is missing, else
\* Math.sqrt(dx * dx + dy * dy) with dx = p1.x - p2.x, dy = p1.y - p2.y,
\* kept as [sq], sq the number dx * dx + dy * dy the root is taken of
Infinity == [infinity |-> TRUE]
Dist(p1, p2) ==
  IF p1 = Null \/ p2 = Null THEN Infinity
  ELSE LET square(d) == DMul(d, d)
       IN [sq |-> DAdd(square(DSub(p1.x, p2.x)), square(DSub(p1.y, p2.y)))]

\* the number _dist returns for a finite distance
DistDouble(d) == DSqrt(d.sq)

\* The sign of Math.sqrt(sq) - c.  For sq a whole number of 1/Unit and c one
\* below LimbBase, sq and c * c are equal or at least 1/Unit^2 apart, the
\* root and c then far more than the rounding of Math.sqrt: the exact
\* numbers decide (k is c * c in units of 1/Unit^2).
RootCmp(sq, c) ==
  LET exact(k) ==
        IF sq.q > k \div Unit THEN 1
        ELSE IF sq.q < k \div Unit \/ k % Unit # 0 THEN -1
        ELSE 0
  IN IF IsFixed(sq) /\ IsFixed(c) /\ Abs(c.q) < LimbBase
     THEN (IF c.q < 0 THEN 1 ELSE exact(c.q * c.q))
     ELSE DCmp(DSqrt(sq), c)

\* d1 > d2 for two finite distances.  Two different whole numbers of 1/Unit
\* are at least 1/Unit apart, their roots far more than the rounding of
\* Math.sqrt, and the roots of equal numbers are equal; any other two
\* distances are compared as the numbers the code computes.
DistGreater(d1, d2) ==
  IF IsFixed(d1.sq) /\ IsFixed(d2.sq) THEN d1.sq.q > d2.sq.q
  ELSE DCmp(DSqrt(d1.sq), DSqrt(d2.sq)) > 0

\* TIP_NAMES[finger] / PIP_NAMES[finger] as isFingerUp passes them to
\* _getKeypoint: no string when undefined or inherited
TipName(finger) == IF IsFingerName(finger) THEN TIP_NAMES[finger] ELSE NoName
PipName(finger) == IF IsFingerName(finger) THEN PIP_NAMES[finger] ELSE NoName

\* isFingerUp as it would be with >= in place of >: a tip exactly as far
\* from the wrist as the pip counts as up
IsFingerUpOrLevel(which, finger) ==
  LET shift == /\ finger = "" /\ which.type = "string"
               /\ IsFingerName(StringOf(which.chars))
      fin == IF shift THEN StringOf(which.chars) ELSE finger
      w == IF shift THEN Undefined ELSE which
      hand == ResolveHand(w)
      wrist == hand.keypoints[KP("wrist")]
      tip == GetKeypoint(hand, TipName(fin))
      pip == GetKeypoint(hand, PipName(fin))
  IN IF hand = Null THEN Bool(FALSE)
     ELSE IF tip = TypeError \/ pip = TypeError THEN TypeError
     ELSE IF tip = Null \/ pip = Null \/ wrist = Null THEN Bool(FALSE)
     ELSE Bool(~DistGreater(Dist(pip, wrist), Dist(tip, wrist)))

\* isFingerUp(which, finger); finger "" stands for an omitted finger.  The
\* result is Bool(b), or TypeError thrown by _getKeypoint.
IsFingerUp(which, finger) ==
  LET shift == /\ finger = "" /\ which.type = "string"
               /\ IsFingerName(StringOf(which.chars))
      fin == IF shift THEN StringOf(which.chars) ELSE finger
      w == IF shift THEN Undefined ELSE which
      hand == ResolveHand(w)
      wrist == hand.keypoints[KP("wrist")]
      tip == GetKeypoint(hand, TipName(fin))
      pip == GetKeypoint(hand, PipName(fin))
  IN IF hand = Null THEN Bool(FALSE)
     ELSE IF tip = TypeError \/ pip = TypeError THEN TypeError
     ELSE IF tip = Null \/ pip = Null \/ wrist = Null THEN Bool(FALSE)
     ELSE Bool(DistGreater(Dist(tip, wrist), Dist(pip, wrist)))

\* fingersUp(which): the five booleans by finger name, or TypeError
FingersUp(which) ==
  LET of(up) ==
        IF \E i \in 1..Len(FINGER_NAMES) : up[i] = TypeError THEN TypeError
        ELSE [thumb |-> up[1].bool, index |-> up[2].bool,
              middle |-> up[3].bool, ring |-> up[4].bool,
              pinky |-> up[5].bool]
  IN of([i \in 1..Len(FINGER_NAMES) |-> IsFingerUp(which, FINGER_NAMES[i])])

\* countFingers(which): Num(n), or TypeError
CountFingers(which) ==
  LET of(up) ==
        IF \E i \in 1..Len(FINGER_NAMES) : up[i] = TypeError THEN TypeError
        ELSE Num(Cardinality({i \in 1..Len(FINGER_NAMES) : up[i].bool}))
  IN of([i \in 1..Len(FINGER_NAMES) |-> IsFingerUp(which, FINGER_NAMES[i])])

\* isOpenHand(which)
IsOpenHand(which) ==
  LET shown(n) == IF n = TypeError THEN TypeError ELSE Bool(n.value >= 5)
  IN shown(CountFingers(which))

\* isPointing(which)
IsPointing(which) ==
  LET shown(f) == IF f = TypeError THEN TypeError
                  ELSE Bool(f.index /\ ~f.middle /\ ~f.ring /\ ~f.pinky)
  IN shown(FingersUp(which))

\* isPeace(which)
IsPeace(which) ==
  LET shown(f) == IF f = TypeError THEN TypeError
                  ELSE Bool(f.index /\ f.middle /\ ~f.ring /\ ~f.pinky)
  IN shown(FingersUp(which))

\* isThumbsUp(which)
IsThumbsUp(which) ==
  LET shown(f) == IF f = TypeError THEN TypeError
                  ELSE Bool(f.thumb /\ ~f.index /\ ~f.middle /\ ~f.ring /\ ~f.pinky)
  IN shown(FingersUp(which))

\* isRockOn(which)
IsRockOn(which) ==
  LET shown(f) == IF f = TypeError THEN TypeError
                  ELSE Bool(f.index /\ f.pinky /\ ~f.middle /\ ~f.ring)
  IN shown(FingersUp(which))

\* isShaka(which)
IsShaka(which) ==
  LET shown(f) == IF f = TypeError THEN TypeError
                  ELSE Bool(f.thumb /\ f.pinky /\ ~f.index /\ ~f.middle /\ ~f.ring)
  IN shown(FingersUp(which))

\* isGun(which)
IsGun(which) ==
  LET shown(f) == IF f = TypeError THEN TypeError
                  ELSE Bool(f.thumb /\ f.index /\ ~f.middle /\ ~f.ring /\ ~f.pinky)
  IN shown(FingersUp(which))

\* isThree as its comment describes it (thumb down as well)
IsThreeThumbDown(which) ==
  LET shown(f) == IF f = TypeError THEN TypeError
                  ELSE Bool(f.index /\ f.middle /\ f.ring /\ ~f.pinky /\ ~f.thumb)
  IN shown(FingersUp(which))

\* isThree(which)
IsThree(which) ==
  LET shown(f) == IF f = TypeError THEN TypeError
                  ELSE Bool(f.index /\ f.middle /\ f.ring /\ ~f.pinky)
  IN shown(FingersUp(which))

\* [f.index, f.middle, f.ring, f.pinky].filter(Boolean).length
CountOfFour(f) ==
  Cardinality({n \in {"index", "middle", "ring", "pinky"} : f[n]})

\* isShowingNumber as it would be if 3 meant the isThree pattern (index,
\* middle and ring up, pinky and thumb down) instead of a count of three
IsShowingNumberByPattern(which, num) ==
  LET shift == which.type = "number"
      n == IF shift THEN which.value ELSE num
      w == IF shift THEN Undefined ELSE which
      shown(f) ==
        IF f = TypeError THEN TypeError
        ELSE IF n = 5 THEN Bool(CountOfFour(f) = 4 /\ f.thumb)
        ELSE IF n = 0 THEN Bool(CountOfFour(f) = 0 /\ ~f.thumb)
        ELSE IF n = 3 THEN Bool(f.index /\ f.middle /\ f.ring /\ ~f.pinky /\ ~f.thumb)
        ELSE Bool(CountOfFour(f) = n /\ ~f.thumb)
  IN shown(FingersUp(w))

\* isShowingNumber as it would be if 5 did not ask for the thumb
IsShowingNumberFiveNoThumb(which, num) ==
  LET shift == which.type = "number"
      n == IF shift THEN which.value ELSE num
      w == IF shift THEN Undefined ELSE which
      shown(f) ==
        IF f = TypeError THEN TypeError
        ELSE IF n = 5 THEN Bool(CountOfFour(f) = 4)
        ELSE IF n = 0 THEN Bool(CountOfFour(f) = 0 /\ ~f.thumb)
        ELSE Bool(CountOfFour(f) = n /\ ~f.thumb)
  IN shown(FingersUp(w))

\* isShowingNumber(which, num)
IsShowingNumber(which, num) ==
  LET shift == which.type = "number"
      n == IF shift THEN which.value ELSE num
      w == IF shift THEN Undefined ELSE which
      shown(f) ==
        IF f = TypeError THEN TypeError
        ELSE IF n = 5 THEN Bool(CountOfFour(f) = 4 /\ f.thumb)
        ELSE IF n = 0 THEN Bool(CountOfFour(f) = 0 /\ ~f.thumb)
        ELSE Bool(CountOfFour(f) = n /\ ~f.thumb)
  IN shown(FingersUp(w))

\* vel.speed < minSpeed, minSpeed in whole px
SpeedBelow(vel, minSpeed) == RootCmp(vel.speedSq, Whole(minSpeed)) < 0

\* Math.abs(vel.x) > Math.abs(vel.y)
AbsGreater(vel) == DCmp(DAbs(vel.x), DAbs(vel.y)) > 0

\* handSwipe(which, minSpeed); minSpeed 0 stands for an omitted (or zero)
\* minSpeed.  The result is Text(direction), or TypeError thrown by
\* pointVelocity.
HandSwipe(which, minSpeed) ==
  LET shift == which.type = "number"
      ms0 == IF shift THEN which.value ELSE minSpeed
      w == IF shift THEN Undefined ELSE which
      ms == IF ms0 = 0 THEN 12 ELSE ms0
      swipe(vel) ==
        IF vel = TypeError THEN TypeError
        ELSE IF vel = Null THEN Text("none")
        ELSE IF SpeedBelow(vel, ms) THEN Text("none")
        ELSE IF AbsGreater(vel)
             THEN (IF Sign(vel.x) > 0 THEN Text("right") ELSE Text("left"))
             ELSE (IF Sign(vel.y) > 0 THEN Text("down") ELSE Text("up"))
  IN swipe(PointVelocity(w, "wrist"))

(***************************************************************************)
(* POINT ACCESS                                                            *)
(***************************************************************************)
\* which keypoint indices belong to each finger, starting from the wrist
FINGER_CONNECTIONS ==
  [thumb |-> <<0, 1, 2, 3, 4>>, index |-> <<0, 5, 6, 7, 8>>,
   middle |-> <<0, 9, 10, 11, 12>>, ring |-> <<0, 13, 14, 15, 16>>,
   pinky |-> <<0, 17, 18, 19, 20>>]

\* the point { x: sx / n, y: sy / n }
Mean(sx, sy, n) == [x |-> DDivSmall(sx, n), y |-> DDivSmall(sy, n)]

\* the sum of coordinate c ("x" or "y") over the first k of the JS indices
\* idxs, skipping null slots: 0, then += slot by slot
RECURSIVE SumAt(_, _, _, _)
SumAt(kps, c, idxs, k) ==
  IF k = 0 THEN Zero
  ELSE IF kps[idxs[k] + 1] = Null THEN SumAt(kps, c, idxs, k - 1)
  ELSE DAdd(SumAt(kps, c, idxs, k - 1), kps[idxs[k] + 1][c])

\* getPoint(which, name); name "" stands for an omitted name
GetPoint(which, name) ==
  LET shift == name = "" /\ which.type = "string" /\ ~SideAnyRegex(which.chars)
      nm == IF shift THEN StringOf(which.chars) ELSE name
      w == IF shift THEN Undefined ELSE which
  IN GetKeypoint(ResolveHand(w), nm)

\* fingerTip(which, finger); finger "" stands for an omitted finger.
\* `name ? _getKeypoint(hand, name) : null`: an inherited TIP_NAMES[finger]
\* is truthy and goes to _getKeypoint as a name that is no string.
FingerTip(which, finger) ==
  LET shift == /\ finger = "" /\ which.type = "string"
               /\ IsFingerName(StringOf(which.chars))
      fin == IF shift THEN StringOf(which.chars) ELSE finger
      w == IF shift THEN Undefined ELSE which
      hand == ResolveHand(w)
  IN IF IsFingerName(fin) THEN GetKeypoint(hand, TIP_NAMES[fin])
     ELSE IF IsInherited(fin) THEN GetKeypoint(hand, NoName)
     ELSE Null

\* wristPoint(which)
WristPoint(which) == GetKeypoint(ResolveHand(which), "wrist")

\* palmCenter(which)
PalmCenter(which) ==
  LET hand == ResolveHand(which)
      indices == <<KP("wrist") - 1, KP("index_finger_mcp") - 1,
                   KP("middle_finger_mcp") - 1, KP("ring_finger_mcp") - 1,
                   KP("pinky_finger_mcp") - 1>>
      n == Cardinality({k \in 1..Len(indices) : hand.keypoints[indices[k] + 1] # Null})
  IN IF hand = Null THEN Null
     ELSE IF n = 0 THEN Null
     ELSE Mean(SumAt(hand.keypoints, "x", indices, Len(indices)),
               SumAt(hand.keypoints, "y", indices, Len(indices)), n)

\* handCenter(which): the loop reads .x of every slot and throws a TypeError
\* at a null one
HandCenter(which) ==
  LET hand == ResolveHand(which)
      all == [k \in 1..Len(hand.keypoints) |-> k - 1]
  IN IF hand = Null THEN Null
     ELSE IF Len(hand.keypoints) = 0 THEN Null
     ELSE IF \E i \in 1..Len(hand.keypoints) : hand.keypoints[i] = Null
          THEN TypeError
     ELSE Mean(SumAt(hand.keypoints, "x", all, Len(all)),
               SumAt(hand.keypoints, "y", all, Len(all)), Len(hand.keypoints))

\* getFingerPoints(which, finger); finger "" stands for an omitted finger.
\* An inherited FINGER_CONNECTIONS[finger] is truthy and has no slice:
\* conn.slice(1) throws a TypeError.
GetFingerPoints(which, finger) ==
  LET shift == /\ finger = "" /\ which.type = "string"
               /\ IsFingerName(StringOf(which.chars))
      fin == IF shift THEN StringOf(which.chars) ELSE finger
      w == IF shift THEN Undefined ELSE which
      hand == ResolveHand(w)
      conn == FINGER_CONNECTIONS[fin]
      present(p) == p # Null
  IN IF hand = Null THEN <<>>
     ELSE IF IsInherited(fin) THEN TypeError
     ELSE IF ~IsFingerName(fin) THEN <<>>
     ELSE SelectSeq([k \in 1..(Len(conn) - 1) |-> hand.keypoints[conn[k + 1] + 1]],
                    present)

\* pinchPoint(which)
PinchPoint(which) ==
  LET hand == ResolveHand(which)
      a == GetKeypoint(hand, "thumb_tip")
      b == GetKeypoint(hand, "index_finger_tip")
  IN IF a = TypeError \/ b = TypeError THEN TypeError
     ELSE IF a = Null \/ b = Null THEN Null
     ELSE Mean(DAdd(a.x, b.x), DAdd(a.y, b.y), 2)

\* handSize(which): the wrist to middle fingertip distance (kept as Dist
\* keeps it), or Null
HandSize(which) ==
  LET hand == ResolveHand(which)
      d == Dist(hand.keypoints[KP("wrist")], hand.keypoints[KP("middle_finger_tip")])
  IN IF hand = Null THEN Null
     ELSE IF d = Infinity THEN Null
     ELSE d

\* handAngle(which): Math.atan2(dy, dx), kept as its arguments, or Null
HandAngle(which) ==
  LET hand == ResolveHand(which)
      w == hand.keypoints[KP("wrist")]
      m == hand.keypoints[KP("middle_finger_mcp")]
  IN IF hand = Null THEN Null
     ELSE IF w = Null \/ m = Null THEN Null
     ELSE [atan2 |-> <<DSub(m.y, w.y), DSub(m.x, w.x)>>]

(***************************************************************************)
(* GESTURE DETECTION by distance.  Thresholds are whole numbers of px.     *)
(***************************************************************************)
\* isPinching(which, threshold); threshold 0 stands for an omitted (or zero)
\* threshold
IsPinching(which, threshold) ==
  LET shift == which.type = "number"
      t0 == IF shift THEN which.value ELSE threshold
      w == IF shift THEN Undefined ELSE which
      t == IF t0 = 0 THEN 40 ELSE t0
      hand == ResolveHand(w)
      a == GetKeypoint(hand, "thumb_tip")
      b == GetKeypoint(hand, "index_finger_tip")
      near(d) == IF d = Infinity THEN Bool(FALSE)
                 ELSE Bool(RootCmp(d.sq, Whole(t)) < 0)
  IN IF a = TypeError \/ b = TypeError THEN TypeError
     ELSE near(Dist(a, b))

\* Math.max(0, Math.min(1, x))
Clamp(x) ==
  IF Sign(x) < 0 THEN Zero ELSE IF DCmp(x, One) > 0 THEN One ELSE x

\* pinchAmount(which, min, max); 0 stands for an omitted (or zero) min or
\* max.  The result is Num(x), x the number returned, or NaN (0 / 0 when
\* d = max = min); a non-zero dividend over max - min = 0 is an infinity,
\* which clamps to 1 or to 0.
PinchAmount(which, min, max) ==
  LET shift == which.type = "number"
      mn0 == IF shift THEN which.value ELSE min
      mx0 == IF shift THEN min ELSE max
      w == IF shift THEN Undefined ELSE which
      mn == IF mn0 = 0 THEN 15 ELSE mn0
      mx == IF mx0 = 0 THEN 100 ELSE mx0
      hand == ResolveHand(w)
      a == GetKeypoint(hand, "thumb_tip")
      b == GetKeypoint(hand, "index_finger_tip")
      \* (max - d) / (max - min), with a divisor below 0 as (d - max) / (min - max)
      over(dividend) ==
        IF mx = mn
        THEN (IF Sign(dividend) = 0 THEN [nan |-> TRUE]
              ELSE IF Sign(dividend) > 0 THEN Num(One) ELSE Num(Zero))
        ELSE Num(Clamp(DDivSmall(IF mx > mn THEN dividend ELSE DNeg(dividend),
                                 Abs(mx - mn))))
      amount(d) ==
        IF d = Infinity THEN Num(Zero)
        ELSE over(DSub(Whole(mx), DistDouble(d)))
  IN IF a = TypeError \/ b = TypeError THEN TypeError
     ELSE amount(Dist(a, b))

\* isGrabbing(which, threshold); threshold 0 stands for an omitted (or zero)
\* threshold.  sum(k) is total after the first k fingers:
\* total += _dist(tip, wrist).
IsGrabbing(which, threshold) ==
  LET shift == which.type = "number"
      t0 == IF shift THEN which.value ELSE threshold
      w == IF shift THEN Undefined ELSE which
      t == IF t0 = 0 THEN 90 ELSE t0
      hand == ResolveHand(w)
      wrist == hand.keypoints[KP("wrist")]
      tips == [i \in 1..Len(FINGER_NAMES) |->
                 GetKeypoint(hand, TIP_NAMES[FINGER_NAMES[i]])]
      got == {i \in 1..Len(FINGER_NAMES) : tips[i] # Null}
      n == Cardinality(got)
      RECURSIVE sum(_)
      sum(k) == IF k = 0 THEN Zero
                ELSE IF k \in got
                     THEN DAdd(sum(k - 1), DistDouble(Dist(tips[k], wrist)))
                     ELSE sum(k - 1)
      mean == DDivSmall(sum(Len(FINGER_NAMES)), n)
  IN IF hand = Null THEN Bool(FALSE)
     ELSE IF wrist = Null THEN Bool(FALSE)
     ELSE IF \E i \in 1..Len(FINGER_NAMES) : tips[i] = TypeError THEN TypeError
     ELSE IF n < 3 THEN Bool(FALSE)
     ELSE Bool(DCmp(mean, Whole(t)) < 0)

(***************************************************************************)
(* The sketch's calls of the query functions.  None of them assigns to the *)
(* library's state; the model records the call and what it returned.       *)
(***************************************************************************)
\* a call: the function, its `which` and its name / finger / number argument
Call(op, which, arg) == [op |-> op, which |-> which, arg |-> arg]

\* the calls the sketch makes
Queries ==
  {Call("getHand", w, "") : w \in {Undefined, Str(<<"l", "e", "f", "t">>)}}
  \cup {Call("handDetected", Str(<<"r", "i", "g", "h", "t">>), ""),
        Call("handCount", Undefined, ""),
        Call("getPoint", Undefined, "index_finger_tip"),
        Call("fingerTip", Str(<<"t", "h", "u", "m", "b">>), ""),
        Call("palmCenter", Undefined, ""),
        Call("isFingerUp", Undefined, "index"),
        Call("countFingers", Undefined, ""),
        Call("isPinching", Undefined, ""),
        Call("isPeace", Undefined, ""),
        Call("isShowingNumber", Undefined, "2"),
        Call("pointVelocity", Undefined, "wrist"),
        Call("handSwipe", Undefined, "")}

\* what the call q returns in the current state
Returned(q) ==
  CASE q.op = "getHand" -> GetHand(q.which)
    [] q.op = "handDetected" -> Bool(HandDetected(q.which))
    [] q.op = "handCount" -> Num(HandCount)
    [] q.op = "getPoint" -> GetPoint(q.which, q.arg)
    [] q.op = "fingerTip" -> FingerTip(q.which, q.arg)
    [] q.op = "palmCenter" -> PalmCenter(q.which)
    [] q.op = "isFingerUp" -> IsFingerUp(q.which, q.arg)
    [] q.op = "countFingers" -> CountFingers(q.which)
    [] q.op = "isPinching" -> IsPinching(q.which, 0)
    [] q.op = "isPeace" -> IsPeace(q.which)
    [] q.op = "isShowingNumber" -> IsShowingNumber(q.which, 2)
    [] q.op = "pointVelocity" -> PointVelocity(q.which, q.arg)
    [] q.op = "handSwipe" -> HandSwipe(q.which, 0)

\* a query as it would be if pointVelocity kept the set it has just read as
\* the previous frame
QueryKeepingSample(q) ==
  /\ asked' = q
  /\ answer' = [result |-> Returned(q)]
  /\ _prevHands' = IF q.op = "pointVelocity" THEN PrevSnapshot(frame)
                   ELSE _prevHands
  /\ UNCHANGED <<_hands, _smoothedHands, _ready, _running, _model,
                 _smoothing, models, frame, delivered, deliveredBefore, err,
                 stopped>>

\* the sketch calls a query function
Query(q) ==
  /\ asked' = q
  /\ answer' = [result |-> Returned(q)]
  /\ UNCHANGED <<_hands, _smoothedHands, _prevHands, _ready, _running, _model,
                 _smoothing, models, frame, delivered, deliveredBefore, err,
                 stopped>>

(***************************************************************************)
(* The state when the script has been evaluated (INTERNAL STATE).          *)
(***************************************************************************)
Init ==
  /\ _hands = <<>>
  /\ _smoothedHands = <<>>
  /\ _prevHands = <<>>
  /\ _ready = FALSE
  /\ _running = FALSE
  /\ _model = 0
  /\ _smoothing = Tenths(3)
  /\ models = <<>>
  /\ frame = 0
  /\ delivered = NoResults
  /\ deliveredBefore = NoResults
  /\ err = "ok"
  /\ stopped = FALSE
  /\ asked = NoQuery
  /\ answer = Null

\* One session: the sketch configures the library once, by loadHands() in
\* preload() or initHands() in setup() (the smoothing factor is fixed for the
\* session), then starts, stops and queries it while callbacks arrive.
Unconfigured == _model = 0

Next ==
  \/ Unconfigured /\ \E s \in SmoothingChoices : LoadHands(s)
  \/ StartHands
  \/ Unconfigured /\ \E s \in SmoothingChoices : InitHands(s)
  \/ \E m \in DOMAIN models : ModelLoaded(m)
  \/ StopHands
  \/ DetectCallback

Spec == Init /\ [][Next]_vars

\* A session whose detector delivers posed hands (PoseChoices).
PoseNext ==
  \/ Unconfigured /\ \E s \in {Tenths(0), Tenths(5)} : InitHands(s)
  \/ \E m \in DOMAIN models : ModelLoaded(m)
  \/ DetectPose

PoseSpec == Init /\ [][PoseNext]_vars

\* A sketch that calls initHands() and then the query functions, between
\* the callbacks and the other lifecycle calls.
QueryNext ==
  \/ StartHands
  \/ Unconfigured /\ \E s \in {Tenths(0), Tenths(3)} : InitHands(s)
  \/ \E m \in DOMAIN models : ModelLoaded(m)
  \/ StopHands
  \/ DetectQueried
  \/ \E q \in Queries : Query(q)

QuerySpec == Init /\ [][QueryNext]_vars

\* A sketch that calls the lifecycle functions in any order, loadHands() and
\* initHands() up to MaxModels times in all, with no detection callback
\* followed.
CanConfigure == Len(models) < MaxModels

LifecycleNext ==
  \/ CanConfigure /\ \E s \in {Tenths(0), Tenths(3)} : LoadHands(s)
  \/ StartHands
  \/ CanConfigure /\ \E s \in {Tenths(0), Tenths(3)} : InitHands(s)
  \/ \E m \in DOMAIN models : ModelLoaded(m)
  \/ StopHands

LifecycleSpec == Init /\ [][LifecycleNext]_vars

\* The frames the detector delivers to a session that keeps the default
\* smoothing: no hand; a Left hand at (100,100); a Right hand at (100,100)
\* or at (110,104); a Right hand at (100,100), or one at (110,104) whose
\* wrist slot is null, with a Left hand at (120,100).
SmoothedChoices ==
  {<<>>,
   <<Pick("Left", 100, 100, {})>>,
   <<Pick("Right", 100, 100, {})>>,
   <<Pick("Right", 110, 104, {})>>,
   <<Pick("Right", 100, 100, {}), Pick("Left", 120, 100, {})>>,
   <<Pick("Right", 110, 104, {1}), Pick("Left", 120, 100, {})>>}

\* the detection callback, delivering one of these frames
DetectSmoothed ==
  /\ frame < MaxSmoothFrames
  /\ \E m \in DOMAIN models : models[m].loaded /\ models[m].detecting
  /\ \E results \in {Results(RawHands(c, frame + 1)) : c \in SmoothedChoices} :
       HandleResults(results)
  /\ asked' = NoQuery /\ answer' = Null
  /\ UNCHANGED <<_ready, _running, _model, _smoothing, models, stopped>>

\* A sketch that calls initHands() with no smoothing option (the default
\* 0.3) and lets the callbacks arrive.
SmoothNext ==
  \/ Unconfigured /\ InitHands(Tenths(3))
  \/ \E m \in DOMAIN models : ModelLoaded(m)
  \/ DetectSmoothed

SmoothSpec == Init /\ [][SmoothNext]_vars

(***************************************************************************)
(* Claims.  Side tokens as a caller writes them, each with the side it     *)
(* asks for.                                                               *)
(***************************************************************************)
Ask(chars, side) == [which |-> Str(chars), side |-> side]

ExplicitAsks ==
  { Ask(<<"l", "e", "f", "t">>, "Left"), Ask(<<"L", "E", "F", "T">>, "Left"),
    Ask(<<"L", "e", "f", "t">>, "Left"), Ask(<<"l">>, "Left"),
    Ask(<<"L">>, "Left"),
    Ask(<<"r", "i", "g", "h", "t">>, "Right"),
    Ask(<<"R", "I", "G", "H", "T">>, "Right"),
    Ask(<<"R", "i", "g", "h", "t">>, "Right"), Ask(<<"r">>, "Right"),
    Ask(<<"R">>, "Right") }

LeftToken == Str(<<"l", "e", "f", "t">>)
RightToken == Str(<<"r", "i", "g", "h", "t">>)

HasSide(hs, side) == \E i \in 1..Len(hs) : hs[i].handedness = side
IsHandOf(h, hs) == \E i \in 1..Len(hs) : hs[i] = h

\* C1: for every explicit side token, getHand returns a hand of the active
\* set with the requested handedness when the set has one and none
\* otherwise (never a lone hand of the other side); with two hands of
\* distinct handedness, "left" and "right" return different hands.
C1_ExplicitSideIsStrict ==
  /\ \A a \in ExplicitAsks :
        IF HasSide(GetHands, a.side)
        THEN /\ GetHand(a.which) # Null
             /\ IsHandOf(GetHand(a.which), GetHands)
             /\ GetHand(a.which).handedness = a.side
        ELSE GetHand(a.which) = Null
  /\ (Len(GetHands) = 2 /\ GetHands[1].handedness # GetHands[2].handedness)
        => /\ GetHand(LeftToken) # Null /\ GetHand(RightToken) # Null
           /\ GetHand(LeftToken).ref # GetHand(RightToken).ref

\* C1 witness: a lone Left hand is active; "RIGHT" gets none, "L" gets it
C1_Witness ==
  /\ Len(GetHands) = 1 /\ GetHands[1].handedness = "Left"
  /\ GetHand(Str(<<"R", "I", "G", "H", "T">>)) = Null
  /\ GetHand(Str(<<"L">>)) = GetHands[1]

\* C2: with no side token getHand returns a Right hand if the active set has
\* one; otherwise the single hand of a one-hand set whatever its handedness;
\* otherwise none.  For every set of size 1 it returns that single hand.
C2_OmittedTokenFallsBack ==
  /\ IF HasSide(GetHands, "Right")
     THEN /\ GetHand(Undefined) # Null
          /\ IsHandOf(GetHand(Undefined), GetHands)
          /\ GetHand(Undefined).handedness = "Right"
     ELSE IF Len(GetHands) = 1 THEN GetHand(Undefined) = GetHands[1]
     ELSE GetHand(Undefined) = Null
  /\ Len(GetHands) = 1 => GetHand(Undefined) = GetHands[1]

\* C2 witness: the only active hand is a Left hand and getHand() returns it
C2_Witness ==
  /\ Len(GetHands) = 1 /\ GetHands[1].handedness = "Left"
  /\ GetHand(Undefined) = GetHands[1]

\* C3 as stated: when exactly one hand is detected getHand(which) returns
\* that hand whichever side is asked for ("left", "right" or omitted).
C3_LoneHandForAnySide ==
  Len(GetHands) = 1 =>
    /\ GetHand(LeftToken) = GetHands[1]
    /\ GetHand(RightToken) = GetHands[1]
    /\ GetHand(Undefined) = GetHands[1]

\* C3 amended: when exactly one hand is detected, getHand(which) returns that
\* hand when the side is omitted or is the hand's own side, and none when
\* "left"/"right" names the other side.
C3_LoneHandUnlessOtherSide ==
  Len(GetHands) = 1 =>
    /\ GetHand(Undefined) = GetHands[1]
    /\ \A a \in ExplicitAsks :
          GetHand(a.which) =
            IF a.side = GetHands[1].handedness THEN GetHands[1] ELSE Null

\* C3 witness: a lone Right hand; getHand() and getHand("right") return it
\* and getHand("left") returns none
C3_Witness ==
  /\ Len(GetHands) = 1 /\ GetHands[1].handedness = "Right"
  /\ GetHand(Undefined) = GetHands[1]
  /\ GetHand(RightToken) = GetHands[1]
  /\ GetHand(LeftToken) = Null

\* a step that is a detection callback
IsCallback == frame' = frame + 1

\* C4: with smoothing 0, after every detection callback the set getHands()
\* returns, and the smoothed set, are the raw list that callback delivered
\* (the same hand objects with the same keypoints).
C4_NoSmoothingIsIdentity ==
  [][(IsCallback /\ _smoothing' = Zero) =>
       /\ GetHands' = delivered'.hands
       /\ _smoothedHands' = delivered'.hands]_vars

\* C4 witness: smoothing is 0, a second callback has delivered two hands and
\* getHands() is that list
C4_Witness ==
  /\ _smoothing = Zero /\ frame >= 2 /\ Len(delivered.hands) = 2
  /\ GetHands = delivered.hands
  /\ ~SameHands(_prevHands, GetHands)

\* prev + (raw - prev) * (1 - s), in the numbers of the program
Towards(prev, raw, s) == DAdd(prev, DMul(DSub(raw, prev), DSub(One, s)))

\* C5 as stated: with smoothing > 0, for each raw hand whose handedness has
\* a hand in the smoothed set left by the preceding callback, every keypoint
\* present in both ends up at prev + (raw - prev) * (1 - s), in x and in y.
C5_LerpTowardsRaw ==
  [][(IsCallback /\ Sign(_smoothing) > 0) =>
       \A hi \in 1..Len(delivered'.hands) :
         LET raw == delivered'.hands[hi]
             prev == FindByHandedness(_smoothedHands, raw.handedness)
         IN prev # Null =>
              \A i \in 1..NumKeypoints :
                (prev.keypoints[i] # Null /\ raw.keypoints[i] # Null) =>
                  /\ hi <= Len(_smoothedHands')
                  /\ _smoothedHands'[hi].handedness = raw.handedness
                  /\ _smoothedHands'[hi].keypoints[i] # Null
                  /\ _smoothedHands'[hi].keypoints[i].x
                       = Towards(prev.keypoints[i].x, raw.keypoints[i].x, _smoothing)
                  /\ _smoothedHands'[hi].keypoints[i].y
                       = Towards(prev.keypoints[i].y, raw.keypoints[i].y, _smoothing)]_vars

\* C6 as stated: with smoothing > 0, a raw hand whose handedness is not in
\* the smoothed set left by the preceding callback enters the smoothed set as
\* an unfiltered value copy of the raw hand (equal data, another object).
C6_NewHandIsCopied ==
  [][(IsCallback /\ Sign(_smoothing) > 0) =>
       \A hi \in 1..Len(delivered'.hands) :
         LET raw == delivered'.hands[hi]
         IN FindByHandedness(_smoothedHands, raw.handedness) = Null =>
              /\ hi <= Len(_smoothedHands')
              /\ SameHand(_smoothedHands'[hi], raw)
              /\ _smoothedHands'[hi].ref # raw.ref]_vars

\* the number of hands of a side in a list
CountSide(hs, side) == Cardinality({i \in 1..Len(hs) : hs[i].handedness = side})

\* C7 as stated, read in its favour: with s = 0.3, when a callback delivers
\* the same raw hand as the callback before it (the only hand of its
\* handedness in both frames and in the smoothed set), the distance from each
\* smoothed keypoint of that hand to its raw target is strictly smaller after
\* the callback than before it, unless it was already zero.
C7_ConvergesMonotonically ==
  [][(IsCallback /\ _smoothing = Tenths(3) /\ frame >= 1) =>
       \A hi \in 1..Len(delivered'.hands) :
         LET raw == delivered'.hands[hi]
             before == FindByHandedness(_smoothedHands, raw.handedness)
             after == FindByHandedness(_smoothedHands', raw.handedness)
         IN (/\ hi <= Len(delivered.hands)
             /\ SameHand(delivered.hands[hi], raw)
             /\ CountSide(delivered.hands, raw.handedness) = 1
             /\ CountSide(delivered'.hands, raw.handedness) = 1
             /\ CountSide(_smoothedHands, raw.handedness) = 1) =>
              /\ after # Null
              /\ \A i \in 1..NumKeypoints :
                    (raw.keypoints[i] # Null /\ before.keypoints[i] # Null) =>
                      /\ after.keypoints[i] # Null
                      /\ \/ DistGreater(Dist(before.keypoints[i], raw.keypoints[i]),
                                        Dist(after.keypoints[i], raw.keypoints[i]))
                         \/ /\ before.keypoints[i].x = raw.keypoints[i].x
                            /\ before.keypoints[i].y = raw.keypoints[i].y
                            /\ after.keypoints[i].x = raw.keypoints[i].x
                            /\ after.keypoints[i].y = raw.keypoints[i].y]_vars

\* C8: after every detection callback _prevHands holds the data of the set
\* that was active just before it (raw when smoothing is 0, smoothed
\* otherwise) in objects of its own, shared neither with that set nor with
\* the new raw and smoothed sets; no other step changes it.
C8_PrevIsIndependentSnapshot ==
  [][/\ IsCallback =>
          /\ SameHands(_prevHands', Source)
          /\ Refs(_prevHands') \cap Refs(Source) = {}
          /\ Refs(_prevHands') \cap (Refs(_hands') \cup Refs(_smoothedHands')) = {}
     /\ ~IsCallback => _prevHands' = _prevHands]_vars

\* C8 witness: after a second callback, the snapshot holds two hands and
\* differs from the set that is active now
C8_Witness ==
  /\ frame >= 2 /\ Len(_prevHands) = 2 /\ Sign(_smoothing) > 0
  /\ ~SameHands(_prevHands, GetHands)
  /\ Refs(_prevHands) \cap (Refs(_hands) \cup Refs(_smoothedHands)) = {}

\* the side tokens and keypoint names the velocity claims are checked for
SideToken(side) == IF side = "Left" THEN LeftToken ELSE RightToken
VelocityWhich == {Undefined, LeftToken, RightToken}
VelocityNames == {"", "wrist", "index_finger_tip", "thumb"}
NameIndex(name) ==
  KP(IF name = "" THEN "wrist" ELSE IF IsFingerName(name) THEN TIP_NAMES[name] ELSE name)

\* C9 as stated: pointVelocity returns none when no hand resolves, and when
\* the previous-frame snapshot has no hand of the resolved hand's handedness
\* (the hand has just appeared, or reappeared after a frame without it).
C9_NoVelocityWithoutPreviousSample ==
  \A w \in VelocityWhich : \A name \in VelocityNames :
    (\/ GetHand(w) = Null
     \/ FindByHandedness(_prevHands, GetHand(w).handedness) = Null)
      => PointVelocity(w, name) = Null

\* the displacement pointVelocity returns for samples prev then curr:
\* dx = curr.x - prev.x, dy = curr.y - prev.y and dx * dx + dy * dy, in the
\* numbers of the program
Displacement(prev, curr) ==
  LET square(d) == DMul(d, d)
  IN [x |-> DSub(curr.x, prev.x), y |-> DSub(curr.y, prev.y),
      speedSq |-> DAdd(square(DSub(curr.x, prev.x)),
                       square(DSub(curr.y, prev.y)))]

\* what C10 says once two callbacks have run: for a hand of a side delivered
\* by both, with the keypoint at p1 then p2, pointVelocity returns p2 - p1
\* and its squared norm
VelocityIsRawDisplacement ==
  \A side \in Handedness : \A name \in VelocityNames :
    LET h1 == FindByHandedness(deliveredBefore.hands, side)
        h2 == FindByHandedness(delivered.hands, side)
        i == NameIndex(name)
    IN (/\ h1 # Null /\ h2 # Null
        /\ h1.keypoints[i] # Null /\ h2.keypoints[i] # Null) =>
         PointVelocity(SideToken(side), name)
           = Displacement(h1.keypoints[i], h2.keypoints[i])

\* C10 as stated: after two consecutive callbacks that deliver a hand of the
\* same handedness with a keypoint at p1 then p2, pointVelocity returns
\* dx = p2.x - p1.x, dy = p2.y - p1.y, speed^2 = dx^2 + dy^2.
C10_VelocityIsRawDisplacement ==
  frame >= 2 => VelocityIsRawDisplacement

\* pointVelocity is the displacement from the previous-frame hand with the
\* resolved hand's handedness to the resolved hand, whenever both hold the
\* keypoint
VelocityIsActiveDisplacement ==
  \A w \in VelocityWhich : \A name \in VelocityNames :
    LET hand == GetHand(w)
        prevHand == FindByHandedness(_prevHands, hand.handedness)
        i == NameIndex(name)
    IN (/\ hand # Null /\ hand.keypoints[i] # Null
        /\ prevHand # Null /\ prevHand.keypoints[i] # Null) =>
         PointVelocity(w, name)
           = Displacement(prevHand.keypoints[i], hand.keypoints[i])

\* C10 amended: with smoothing 0 pointVelocity is the raw displacement
\* p2 - p1 of C10; for any smoothing it is the displacement between the
\* positions in the active set (the smoothed positions when smoothing > 0):
\* from the previous-frame hand with the resolved hand's handedness to the
\* resolved hand.
C10_VelocityIsDisplacementOfActiveSet ==
  /\ (frame >= 2 /\ _smoothing = Zero) => VelocityIsRawDisplacement
  /\ VelocityIsActiveDisplacement

\* C10 witness: smoothing 0, a Left wrist delivered at (100,100) then at
\* (110,104): pointVelocity("left", "wrist") is dx = 10, dy = 4,
\* speed^2 = 116
C10_Witness ==
  /\ _smoothing = Zero /\ frame >= 2
  /\ Len(GetHands) = 1 /\ GetHands[1].handedness = "Left"
  /\ GetHands[1].keypoints[1] = [x |-> Whole(110), y |-> Whole(104), name |-> "wrist"]
  /\ PointVelocity(LeftToken, "wrist")
       = [x |-> Whole(10), y |-> Whole(4), speedSq |-> Whole(116)]

\* the calls of handSwipe the swipe claim is checked for: the side and the
\* minimum speed (px per frame, 0 when omitted)
SwipeWhich == {Undefined, LeftToken, RightToken}
SwipeMinSpeeds == {0, 12, 20, 25}

\* the resolved hand and the previous-frame hand of its handedness both hold
\* a wrist
HasWristVelocity(w) ==
  LET hand == GetHand(w)
      prevHand == IF hand = Null THEN Null
                  ELSE FindByHandedness(_prevHands, hand.handedness)
  IN /\ hand # Null /\ hand.keypoints[1] # Null
     /\ prevHand # Null /\ prevHand.keypoints[1] # Null

\* the direction C11 gives for a velocity v at least as fast as minSpeed
\* (neither axis larger: no direction stated)
SwipeDirection(v) ==
  IF DCmp(DAbs(v.x), DAbs(v.y)) > 0
  THEN (IF Sign(v.x) > 0 THEN {"right"} ELSE {"left"})
  ELSE IF DCmp(DAbs(v.y), DAbs(v.x)) > 0
       THEN (IF Sign(v.y) > 0 THEN {"down"} ELSE {"up"})
  ELSE {"left", "right", "up", "down"}

\* C11 as stated: handSwipe returns "none" when there is no wrist velocity
\* or its speed is below minSpeed (12 when omitted); otherwise the axis with
\* the larger absolute component decides: "right"/"left" by the sign of x,
\* "down"/"up" by the sign of y.
C11_SwipeFollowsDominantAxis ==
  \A w \in SwipeWhich : \A ms \in SwipeMinSpeeds :
    IF ~HasWristVelocity(w) THEN HandSwipe(w, ms) = Text("none")
    ELSE LET hand == GetHand(w)
             prev == FindByHandedness(_prevHands, hand.handedness)
             v == Displacement(prev.keypoints[1], hand.keypoints[1])
         IN IF SpeedBelow(v, IF ms = 0 THEN 12 ELSE ms)
            THEN HandSwipe(w, ms) = Text("none")
            ELSE HandSwipe(w, ms) \in {Text(d) : d \in SwipeDirection(v)}

\* the sides the finger and gesture claims ask for
GestureWhich == {Undefined, LeftToken, RightToken}

\* the fingers a fingersUp result f reports up
UpFingers(f) == {n \in Fingers : f[n]}
FourFingers == {"index", "middle", "ring", "pinky"}

\* C12 as stated: for every combination of the five finger-up booleans,
\* isShowingNumber(3) is true iff exactly index, middle and ring are up and
\* thumb and pinky are down.
C12_ThreeIsIndexMiddleRing ==
  \A w \in GestureWhich :
    LET f == FingersUp(w)
    IN f # TypeError =>
         IsShowingNumber(w, 3) = Bool(UpFingers(f) = {"index", "middle", "ring"})

\* C12 amended: for every combination of the five finger-up booleans,
\* isShowingNumber(3) is true iff exactly three of index, middle, ring and
\* pinky are up (any three) and the thumb is down.
C12_ThreeIsAnyThreeOfFour ==
  \A w \in GestureWhich :
    LET f == FingersUp(w)
    IN f # TypeError =>
         /\ IsShowingNumber(w, 3)
              = Bool(/\ Cardinality(UpFingers(f) \cap FourFingers) = 3
                     /\ "thumb" \notin UpFingers(f))
         /\ w = Undefined => IsShowingNumber(Num(3), 0) = IsShowingNumber(w, 3)

\* C12 witness: the hand shows index, middle and pinky (ring and thumb
\* curled) and isShowingNumber(3) is true
C12_Witness ==
  /\ FingersUp(RightToken) # TypeError
  /\ UpFingers(FingersUp(RightToken)) = {"index", "middle", "pinky"}
  /\ IsShowingNumber(RightToken, 3) = Bool(TRUE)

\* what the isShowingNumber table gives for n and the fingers up
ShownNumber(n, up) ==
  CASE n = 5 -> Cardinality(up \cap FourFingers) = 4 /\ "thumb" \in up
    [] n = 0 -> Cardinality(up \cap FourFingers) = 0 /\ "thumb" \notin up
    [] OTHER -> Cardinality(up \cap FourFingers) = n /\ "thumb" \notin up

\* C13: for every combination of the five finger-up booleans and n in 0..5,
\* isShowingNumber(n) is true iff: n in 1..4, exactly n of index, middle,
\* ring, pinky are up and the thumb is down; n = 5, all four and the thumb
\* are up; n = 0, none of the four is up and the thumb is down.
C13_ShowingNumberTable ==
  \A w \in GestureWhich :
    LET f == FingersUp(w)
    IN f # TypeError =>
         \A n \in 0..5 :
           LET shown == IsShowingNumber(w, n)
           IN /\ shown = Bool(ShownNumber(n, UpFingers(f)))
              /\ w = Undefined => IsShowingNumber(Num(n), 0) = shown

\* C13 witness: all five fingers are up, so isShowingNumber(5) is true and
\* isShowingNumber(4) is false
C13_Witness ==
  /\ FingersUp(Undefined) # TypeError
  /\ UpFingers(FingersUp(Undefined)) = Fingers
  /\ IsShowingNumber(Undefined, 5) = Bool(TRUE)
  /\ IsShowingNumber(Undefined, 4) = Bool(FALSE)

\* C14: for every combination of the five finger-up booleans each
\* finger-pattern predicate equals its table condition; isPointing, isPeace,
\* isThree and isRockOn leave the thumb unconstrained.
C14_GestureTable ==
  \A w \in GestureWhich :
    LET f == FingersUp(w)
        up == UpFingers(f)
        four == up \cap FourFingers
    IN f # TypeError =>
         /\ IsPointing(w) = Bool(four = {"index"})
         /\ IsPeace(w) = Bool(four = {"index", "middle"})
         /\ IsThree(w) = Bool(four = {"index", "middle", "ring"})
         /\ IsRockOn(w) = Bool(four = {"index", "pinky"})
         /\ IsThumbsUp(w) = Bool(up = {"thumb"})
         /\ IsShaka(w) = Bool(up = {"thumb", "pinky"})
         /\ IsGun(w) = Bool(up = {"thumb", "index"})
         /\ IsOpenHand(w) = Bool(up = Fingers)

\* C14 witness: thumb, index, middle and ring are up and the pinky is down:
\* isThree is true although the thumb is up, and isOpenHand is false
C14_Witness ==
  /\ FingersUp(RightToken) # TypeError
  /\ UpFingers(FingersUp(RightToken)) = {"thumb", "index", "middle", "ring"}
  /\ IsThree(RightToken) = Bool(TRUE)
  /\ IsOpenHand(RightToken) = Bool(FALSE)

\* the pip keypoint of a finger (ip for the thumb), by JS index
PipIndex(finger) ==
  CASE finger = "thumb" -> 3 [] finger = "index" -> 6 [] finger = "middle" -> 10
    [] finger = "ring" -> 14 [] finger = "pinky" -> 18
TipIndex(finger) ==
  CASE finger = "thumb" -> 4 [] finger = "index" -> 8 [] finger = "middle" -> 12
    [] finger = "ring" -> 16 [] finger = "pinky" -> 20

\* an open Right hand with wrist (100, 100) whose finger has its tip at
\* (101.8, 97.6) and its pip at (100, 97), or the two the other way round:
\* both are 3 px from the wrist, and _dist gives 3.000000000000003 for the
\* first and 3 for the second
LevelHand(finger, swapped) ==
  LET open == MakeHand(<<"level", finger, swapped>>, "Right", 100, 100, {}, {})
      slant == [x |-> 101800, y |-> 97600]
      straight == [x |-> 100000, y |-> 97000]
      at(p, n) == [x |-> DoubleOf(p.x), y |-> DoubleOf(p.y), name |-> n]
  IN [open EXCEPT
        !.keypoints[TipIndex(finger) + 1] =
           at(IF swapped THEN straight ELSE slant, TIP_NAMES[finger]),
        !.keypoints[PipIndex(finger) + 1] =
           at(IF swapped THEN slant ELSE straight, PIP_NAMES[finger])]

\* what isFingerUp is asked about: the side tokens, and hand objects. A hand
\* object resolves to itself whatever the state (ResolveIn), so the objects
\* are asked about before the first callback only.
FingerWhich ==
  GestureWhich \cup
    (IF frame = 0 THEN {Obj(LevelHand(f, s)) : f \in Fingers, s \in BOOLEAN}
     ELSE {})

\* C15: for a resolved hand whose wrist and the finger's tip and pip are
\* present, isFingerUp is true iff the tip is strictly farther from the wrist
\* than the pip (ip for the thumb); equal distances give false. The distances
\* are the JS numbers _dist returns (compared by DistGreater).
C15_UpIffTipFartherThanPip ==
  \A w \in FingerWhich : \A finger \in Fingers :
    LET hand == GetHand(w)
        wrist == hand.keypoints[1]
        tip == hand.keypoints[TipIndex(finger) + 1]
        pip == hand.keypoints[PipIndex(finger) + 1]
        far == Dist(tip, wrist)
        near == Dist(pip, wrist)
        up == IsFingerUp(w, finger)
    IN (hand # Null /\ wrist # Null /\ tip # Null /\ pip # Null) =>
         /\ up = Bool(DistGreater(far, near))
         /\ far = near => up = Bool(FALSE)

\* C15 witness: a Left hand whose index tip is exactly as far from the wrist
\* as its pip: isFingerUp is false for the index and true for the middle;
\* and a hand object whose index tip is farther only in JS numbers
C15_Witness ==
  /\ GetHand(LeftToken) # Null
  /\ GetHand(LeftToken).keypoints[1] # Null
  /\ GetHand(LeftToken).keypoints[9] # Null
  /\ GetHand(LeftToken).keypoints[9] # GetHand(LeftToken).keypoints[7]
  /\ Dist(GetHand(LeftToken).keypoints[9], GetHand(LeftToken).keypoints[1])
       = Dist(GetHand(LeftToken).keypoints[7], GetHand(LeftToken).keypoints[1])
  /\ IsFingerUp(LeftToken, "index") = Bool(FALSE)
  /\ IsFingerUp(LeftToken, "middle") = Bool(TRUE)
  /\ IsFingerUp(Obj(LevelHand("index", FALSE)), "index") = Bool(TRUE)
  /\ IsFingerUp(Obj(LevelHand("index", TRUE)), "index") = Bool(FALSE)

\* every name a point lookup takes: the 21 keypoint names and the 5 finger
\* names (which stand for the finger's tip)
PointNames == {KPNames[i] : i \in 1..NumKeypoints} \cup Fingers

\* C16 as stated: for a hand that resolves but has null slots in its
\* keypoint list, getPoint and fingerTip return none for an absent named
\* point and isFingerUp returns false when the wrist, tip or pip is absent;
\* none of them throws.
C16_AbsentKeypointGivesNone ==
  \A w \in GestureWhich :
    LET hand == GetHand(w)
        absent(i) == hand.keypoints[i + 1] = Null
    IN hand # Null =>
         /\ \A name \in PointNames :
              absent(NameIndex(name) - 1) => GetPoint(w, name) = Null
         /\ \A finger \in Fingers :
              absent(TipIndex(finger)) => FingerTip(w, finger) = Null
         /\ \A finger \in Fingers :
              (absent(0) \/ absent(TipIndex(finger)) \/ absent(PipIndex(finger)))
                => IsFingerUp(w, finger) = Bool(FALSE)

\* the JS indices 0..20 in order
AllIndices == [k \in 1..NumKeypoints |-> k - 1]

\* C17 as stated: handCenter returns the arithmetic mean of the keypoints
\* present in the resolved hand (the sums over the present ones divided by
\* their number), and none when no keypoint is present or no hand resolves;
\* it does not fail when some keypoints are absent.
C17_CenterIsMeanOfPresent ==
  \A w \in GestureWhich :
    LET hand == GetHand(w)
        n == Cardinality({i \in 1..NumKeypoints : hand.keypoints[i] # Null})
    IN IF hand = Null THEN HandCenter(w) = Null
       ELSE IF n = 0 THEN HandCenter(w) = Null
       ELSE HandCenter(w) = Mean(SumAt(hand.keypoints, "x", AllIndices, NumKeypoints),
                                 SumAt(hand.keypoints, "y", AllIndices, NumKeypoints),
                                 n)

\* the sides, keypoint names and finger names the not-ready claim asks for
\* ("" for an omitted name or finger)
AnyToken == Str(<<"a", "n", "y">>)
SentinelWhich == GestureWhich \cup {AnyToken}

\* the numbers a caller asks isShowingNumber about
NumbersAsked == 0..5

\* C18 as stated: before any detection result has been delivered (nothing
\* initialised, or the model still loading or just started), every query
\* returns its absence sentinel and none throws: none for the hand and point
\* queries, false for handDetected and for every finger and gesture
\* predicate (isShowingNumber for each number and in both call forms
\* included), 0 for handCount, countFingers and pinchAmount, an empty list
\* for getFingerPoints and "none" for handSwipe.
C18_QueriesBeforeFirstResult ==
  frame = 0 =>
    \A w \in SentinelWhich :
      /\ GetHand(w) = Null
      /\ \A name \in PointNames \cup {""} :
           GetPoint(w, name) = Null /\ PointVelocity(w, name) = Null
      /\ \A finger \in Fingers \cup {""} :
           /\ FingerTip(w, finger) = Null
           /\ GetFingerPoints(w, finger) = <<>>
           /\ IsFingerUp(w, finger) = Bool(FALSE)
      /\ WristPoint(w) = Null /\ PalmCenter(w) = Null /\ HandCenter(w) = Null
      /\ PinchPoint(w) = Null /\ HandSize(w) = Null /\ HandAngle(w) = Null
      /\ ~HandDetected(w)
      /\ IsPinching(w, 0) = Bool(FALSE) /\ IsGrabbing(w, 0) = Bool(FALSE)
      /\ IsOpenHand(w) = Bool(FALSE) /\ IsPointing(w) = Bool(FALSE)
      /\ IsPeace(w) = Bool(FALSE) /\ IsThumbsUp(w) = Bool(FALSE)
      /\ IsRockOn(w) = Bool(FALSE) /\ IsShaka(w) = Bool(FALSE)
      /\ IsGun(w) = Bool(FALSE) /\ IsThree(w) = Bool(FALSE)
      /\ \A n \in NumbersAsked :
           /\ IsShowingNumber(w, n) = Bool(FALSE)
           /\ IsShowingNumber(Num(n), 0) = Bool(FALSE)
      /\ HandCount = 0
      /\ CountFingers(w) = Num(0) /\ PinchAmount(w, 0, 0) = Num(Zero)
      /\ HandSwipe(w, 0) = Text("none")

\* some handPose instance is detecting, i.e. delivering callbacks
Detecting == \E m \in DOMAIN models : models[m].detecting

\* C19 as stated: once stopHands() has been called, at any point of the
\* lifecycle (also after initHands() and before its model has loaded), no
\* detection is running or gets started, and the raw, smoothed and previous
\* hand sets stay unchanged, until startHands() or initHands() is called.
C19_StoppedUntilRestart ==
  [][stopped' =>
       /\ ~_running' /\ ~Detecting'
       /\ stopped => UNCHANGED <<_hands, _smoothedHands, _prevHands>>]_vars

\* C20: no query (getHand, handDetected, handCount, the point lookups, the
\* finger-state and gesture predicates, pointVelocity, handSwipe) changes
\* the raw, smoothed or previous hand set or the ready and running flags,
\* and a query repeated with no callback in between returns what it
\* returned before.
C20_QueriesArePureReads ==
  [][asked' # NoQuery =>
       /\ UNCHANGED <<_hands, _smoothedHands, _prevHands, _ready, _running>>
       /\ asked' = asked => answer' = answer]_vars

\* C20 witness: the Right hand's wrist has moved from (100,100) to (105,80),
\* the sketch has asked handSwipe() and got "up"
C20_Witness ==
  /\ frame = 2 /\ Len(GetHands) > 0
  /\ asked = Call("handSwipe", Undefined, "")
  /\ answer = [result |-> Text("up")]

\* "any" and "first" as a caller writes them
AnyTokens ==
  {Str(<<"a", "n", "y">>), Str(<<"A", "n", "y">>), Str(<<"A", "N", "Y">>),
   Str(<<"f", "i", "r", "s", "t">>), Str(<<"F", "i", "r", "s", "t">>)}

\* every token: explicit sides, "any"/"first", and the omitted one
AllTokens == {a.which : a \in ExplicitAsks} \cup AnyTokens \cup {Undefined}

\* C21: getHand("any") and getHand("first") return the first hand of the
\* active set whatever its handedness; every token (explicit, "any"/"first"
\* or omitted) returns none when the active set is empty; handDetected(which)
\* is true exactly when getHand(which) is not none.
C21_AnyIsFirstAndEmptyIsNone ==
  /\ \A t \in AnyTokens :
       GetHand(t) = IF Len(GetHands) = 0 THEN Null ELSE GetHands[1]
  /\ Len(GetHands) = 0 => \A w \in AllTokens : GetHand(w) = Null
  /\ \A w \in AllTokens : HandDetected(w) <=> GetHand(w) # Null

\* C21 witness: a Left hand comes first and a Right hand second; "any"
\* returns the Left one while the omitted token returns the Right one
C21_Witness ==
  /\ Len(GetHands) = 2
  /\ GetHands[1].handedness = "Left" /\ GetHands[2].handedness = "Right"
  /\ GetHand(AnyToken) = GetHands[1]
  /\ GetHand(Undefined) = GetHands[2]
  /\ HandDetected(AnyToken)

\* a hand object the sketch holds on to: an open Left hand with its wrist at
\* (130,90), in no set of the library
HeldHand == MakeHand(<<"held">>, "Left", 130, 90, {}, {})

\* the elements of a list
Elements(hs) == {hs[i] : i \in 1..Len(hs)}

\* the hand objects a sketch can pass instead of a token
HandObjects ==
  {HeldHand} \cup Elements(_hands) \cup Elements(_smoothedHands)
             \cup Elements(_prevHands)

\* C22: when the caller passes a hand object instead of a token, resolution
\* returns that same object in every state (also with an empty active set and
\* before initialisation), and the queries that follow read that object, not
\* the active set.
C22_HandObjectPassesThrough ==
  \A h \in HandObjects :
    /\ GetHand(Obj(h)) = h
    /\ HandDetected(Obj(h))
    /\ \A i \in 1..NumKeypoints :
         h.keypoints[i] # Null => GetPoint(Obj(h), KPNames[i]) = h.keypoints[i]
    /\ h.keypoints[1] # Null => WristPoint(Obj(h)) = h.keypoints[1]
    /\ h = HeldHand =>
         /\ CountFingers(Obj(h)) = Num(5)
         /\ HandCenter(Obj(h))
              = Mean(SumAt(h.keypoints, "x", AllIndices, NumKeypoints),
                     SumAt(h.keypoints, "y", AllIndices, NumKeypoints),
                     NumKeypoints)

\* C22 witness: the active set holds one Right hand; with the held Left hand
\* passed, getHand returns it and wristPoint is its wrist, not the active
\* hand's
C22_Witness ==
  /\ Len(GetHands) = 1 /\ GetHands[1].handedness = "Right"
  /\ GetHand(Obj(HeldHand)) = HeldHand
  /\ WristPoint(Obj(HeldHand)) = HeldHand.keypoints[1]
  /\ WristPoint(Undefined) # TypeError
  /\ WristPoint(Undefined) # WristPoint(Obj(HeldHand))

\* thumb-tip to index-tip gaps of the hands passed to the pinch queries, in
\* tenths of a pixel: 10, 15, 39.9, 40, 57.5, 100 and 120 px
PinchGaps == {100, 150, 399, 400, 575, 1000, 1200}

\* an open Right hand with its index tip at (80, 0) whose thumb tip is
\* gap/10 px left of it, at the decimal x = 80 - gap/10
PinchHand(gap) ==
  LET open == MakeHand(<<"pinch", gap>>, "Right", 100, 100, {}, {})
      tip == open.keypoints[KP("index_finger_tip")]
  IN [open EXCEPT !.keypoints[KP("thumb_tip")] =
        [x |-> DoubleOf(80 * Scale - gap * (Scale \div 10)), y |-> tip.y,
         name |-> "thumb_tip"]]

\* what the pinch queries are asked about: the side tokens, and hand objects
PinchWhich == GestureWhich \cup {Obj(PinchHand(g)) : g \in PinchGaps}

\* the bounds a caller of pinchAmount gives: none, or min and max
PinchBounds ==
  {[given |-> FALSE, min |-> 15, max |-> 100],
   [given |-> TRUE, min |-> 15, max |-> 100],
   [given |-> TRUE, min |-> 30, max |-> 50],
   [given |-> TRUE, min |-> 0, max |-> 50]}

\* pinchAmount(which, min, max) called with these bounds
PinchAmountCalled(w, b) ==
  IF b.given THEN PinchAmount(w, b.min, b.max) ELSE PinchAmount(w, 0, 0)

\* the thumb tip and index tip slots of the hand `which` resolves to
ThumbTipOf(w) == GetHand(w).keypoints[KP("thumb_tip")]
IndexTipOf(w) == GetHand(w).keypoints[KP("index_finger_tip")]

\* C23 as stated: with thumb-tip to index-tip distance d and bounds
\* min < max (defaults 15 and 100), pinchAmount is exactly 0 when d >= max,
\* exactly 1 when d <= min and (max - d)/(max - min) in between (0.5 at
\* d = 57.5 with the defaults); it is always within [0,1], and 0 when the
\* hand or either fingertip is unavailable.
C23_PinchAmountIsLinearRamp ==
  /\ \A w \in PinchWhich : \A b \in PinchBounds :
       LET got == PinchAmountCalled(w, b)
           d == Dist(ThumbTipOf(w), IndexTipOf(w))
       IN IF GetHand(w) = Null THEN got = Num(Zero)
          ELSE IF ThumbTipOf(w) = Null \/ IndexTipOf(w) = Null THEN got = Num(Zero)
          ELSE IF RootCmp(d.sq, Whole(b.max)) >= 0 THEN got = Num(Zero)
          ELSE IF RootCmp(d.sq, Whole(b.min)) <= 0 THEN got = Num(One)
          ELSE /\ got = Num(DDivSmall(DSub(Whole(b.max), DistDouble(d)),
                                     b.max - b.min))
               /\ Sign(got.value) >= 0 /\ DCmp(got.value, One) <= 0
  /\ PinchAmount(Obj(PinchHand(575)), 0, 0) = Num(Tenths(5))

\* the model _model refers to has finished loading
ModelIsLoaded == _model # 0 /\ models[_model].loaded

\* C24 as stated: in every state reachable by any order of loadHands,
\* startHands, initHands, the model-loaded callback and stopHands,
\* handsReady() is true if and only if the model has finished loading and
\* detection has been started and not since stopped; in particular it is
\* false before the model-loaded callback and after stopHands().
C24_ReadyIffLoadedAndDetecting ==
  /\ HandsReady <=> (ModelIsLoaded /\ Detecting)
  /\ (\A m \in DOMAIN models : ~models[m].loaded) => ~HandsReady
  /\ stopped => ~HandsReady

\* C25 as stated: with smoothing > 0, when a raw hand lacks a keypoint at an
\* index where the previous smoothed hand of the same handedness has one,
\* the detection callback still completes without failure: that index keeps
\* the previous smoothed coordinates, the indices present in both are lerped
\* as usual, and the raw, smoothed and previous sets are all updated for
\* that frame.
C25_MissingRawKeypointCarriesForward ==
  [][(IsCallback /\ Sign(_smoothing) > 0) =>
       \A hi \in 1..Len(delivered'.hands) :
         LET raw == delivered'.hands[hi]
             prev == FindByHandedness(_smoothedHands, raw.handedness)
             lacks == {i \in 1..NumKeypoints :
                         raw.keypoints[i] = Null /\ prev.keypoints[i] # Null}
         IN (prev # Null /\ lacks # {}) =>
              /\ err' = "ok"
              /\ _hands' = delivered'.hands
              /\ SameHands(_prevHands', _smoothedHands)
              /\ Len(_smoothedHands') = Len(delivered'.hands)
              /\ \A i \in lacks :
                   /\ _smoothedHands'[hi].keypoints[i] # Null
                   /\ _smoothedHands'[hi].keypoints[i].x = prev.keypoints[i].x
                   /\ _smoothedHands'[hi].keypoints[i].y = prev.keypoints[i].y
              /\ \A i \in 1..NumKeypoints :
                   (raw.keypoints[i] # Null /\ prev.keypoints[i] # Null) =>
                     /\ _smoothedHands'[hi].keypoints[i].x
                          = Towards(prev.keypoints[i].x, raw.keypoints[i].x, _smoothing)
                     /\ _smoothedHands'[hi].keypoints[i].y
                          = Towards(prev.keypoints[i].y, raw.keypoints[i].y, _smoothing)]_vars

\* the list the last callback delivered (results || [])
DeliveredHands == IF delivered.isNull THEN <<>> ELSE delivered.hands

\* C26 as stated: after every detection callback, for any smoothing setting,
\* the active set has exactly as many hands as the raw list that callback
\* delivered, with the same handedness at each position (handCount() is the
\* number of hands delivered and no hand absent from the latest frame is
\* still reported), and the raw hands are not modified by smoothing.
C26_ActiveSetMirrorsRawFrame ==
  frame >= 1 =>
    /\ Len(GetHands) = Len(DeliveredHands)
    /\ HandCount = Len(DeliveredHands)
    /\ \A i \in 1..Len(DeliveredHands) :
         i <= Len(GetHands) /\ GetHands[i].handedness = DeliveredHands[i].handedness
    /\ _hands = DeliveredHands

\* the thresholds a caller of isPinching gives (0: omitted, the default 40)
PinchThresholds == {0, 15, 40, 80}

\* C27 as stated: in any state, for any side token and any threshold, if
\* isPinching(which) is true then pinchPoint(which) in the same state is not
\* none and is the midpoint of the thumb tip and index tip of the same
\* resolved hand; isPinching is false whenever the hand or either fingertip
\* is unavailable.
C27_PinchingImpliesPinchPoint ==
  \A w \in PinchWhich : \A t \in PinchThresholds :
    /\ IsPinching(w, t) = Bool(TRUE) =>
         /\ PinchPoint(w) # Null
         /\ PinchPoint(w) = Mean(DAdd(ThumbTipOf(w).x, IndexTipOf(w).x),
                                 DAdd(ThumbTipOf(w).y, IndexTipOf(w).y), 2)
    /\ GetHand(w) = Null => IsPinching(w, t) = Bool(FALSE)
    /\ (GetHand(w) # Null /\ (ThumbTipOf(w) = Null \/ IndexTipOf(w) = Null))
         => IsPinching(w, t) = Bool(FALSE)

====
